---- MODULE Spec2Model ----
(***************************************************************************)
(* HardyBot helpdesk bot: ticket store, notification ledger, assignment    *)
(* policy, claim coordinator and anchor screen renderer.                   *)
(*                                                                         *)
(* Handlers are coroutines on one event loop: a handler runs atomically    *)
(* from one await to the next, and handlers of different updates           *)
(* interleave at their awaits.  A gateway or store call is linearised at   *)
(* the moment its answer resumes the handler: the call's effect and the    *)
(* code up to the next await form one step.  The ticket flows and the      *)
(* anchor renders work on disjoint state and are specified apart: Spec     *)
(* for the tickets and the ledger, SpecAnchorSeq and SpecAnchor for the    *)
(* anchor screens, SpecPolicy for the assignment policy alone.  Parts of   *)
(* the ticket flows are specified in more detail on their own: SpecClose   *)
(* (closing and rating), SpecList (claims from the task list), SpecDeliver *)
(* (delivery of the cards, voices and store failures included) and         *)
(* SpecLedger and SpecLedgerAll (the ledger's calls alone), SpecHide (the   *)
(* dismissal of cards) and SpecSafe (the gateway calls with retry).        *)
(* SpecDraft follows the in-memory drafts from the category choice to the  *)
(* ticket, SpecBoss the tickets the boss creates and their claims,         *)
(* SpecNotice the closure notices sent to the author and their deletion,   *)
(* and SpecGate the anti-spam and authentication middlewares on a clock of *)
(* integer ticks.                                                          *)
(***************************************************************************)
EXTENDS Integers, Sequences, FiniteSets, TLC

(***************************************************************************)
(* Staff roster (app/config.py ADMIN_1, ADMIN_2, BOSS; 0 = not configured) *)
(***************************************************************************)
ARTUR_ID == 1
ANDREY_K_ID == 2
BOSS_ANDREY_T_ID == 3

\* Python None for an id / an Optional[int]
None == 0

\* settings.admin_ids
Admins == {ARTUR_ID, ANDREY_K_ID}

\* settings.staff_ids: both admins and the boss
staff_ids == {ARTUR_ID, ANDREY_K_ID, BOSS_ANDREY_T_ID}

\* is_admin that lets everybody pass
is_admin_anyone(user_id) == TRUE

\* is_admin(user_id): membership in staff_ids, so the boss passes too
is_admin(user_id) == user_id \in staff_ids

\* is_boss(user_id)
is_boss(user_id) == user_id = BOSS_ANDREY_T_ID

\* _admin_name(admin_id): display name, a generic one for anybody else
_admin_name(admin_id) ==
    IF admin_id = ARTUR_ID THEN "Artur"
    ELSE IF admin_id = ANDREY_K_ID THEN "Andrey"
    ELSE "Administrator"

\* _other_admin_id(admin_id): the other admin, None for the boss
_other_admin_id(admin_id) ==
    IF admin_id = ARTUR_ID /\ ANDREY_K_ID # None THEN ANDREY_K_ID
    ELSE IF admin_id = ANDREY_K_ID /\ ARTUR_ID # None THEN ARTUR_ID
    ELSE None

\* _pick_colleague(me_id)
_pick_colleague(me_id) ==
    IF me_id = ANDREY_K_ID /\ ARTUR_ID # None THEN ARTUR_ID
    ELSE IF me_id = ARTUR_ID /\ ANDREY_K_ID # None THEN ANDREY_K_ID
    ELSE IF ANDREY_K_ID # None THEN ANDREY_K_ID
    ELSE IF ARTUR_ID # None THEN ARTUR_ID ELSE me_id

(***************************************************************************)
(* Statuses (app/enums.py).  Status has no ASSIGNED member, so the         *)
(* ASSIGNED alias of the handlers resolves to IN_PROGRESS.                 *)
(***************************************************************************)
Status_NEW == "NEW"
Status_IN_PROGRESS == "IN_PROGRESS"
Status_CLOSED == "CLOSED"
STATUS_ASSIGNED_VALUE == Status_IN_PROGRESS
OPEN_STATUSES == {Status_NEW, STATUS_ASSIGNED_VALUE, Status_IN_PROGRESS}

(***************************************************************************)
(* Category policy.  Category names are transliterated:                    *)
(*   Komputer = "Компьютер", Udalenka = "Удаленка", C1cyr = "1С" (Cyrillic *)
(*   es), C1lat = "1C" (Latin C), Propusk = "Пропуск", Dver = "Доступ в    *)
(*   дверь", Internet, Mobile = "Мобильная связь", Printer, ECP, Drugoe;   *)
(*   Udalyonka = "Удалёнка" is the user menu's spelling, Noutbuk is a      *)
(*   category of the admin wizard only, Boss = "— от начальника —".        *)
(***************************************************************************)
ONLY_ARTUR == {"Komputer", "Udalenka", "C1cyr", "C1lat"}
ONLY_ANDREY == {"Propusk", "Dver"}
BOTH == {"Internet", "Mobile", "Printer", "ECP", "Drugoe"}

\* every category string the flows can store, and the empty string
Categories ==
    ONLY_ARTUR \cup ONLY_ANDREY \cup BOTH \cup {"Udalyonka", "Noutbuk", "Boss", ""}

\* USER_CATEGORIES of the user menu
USER_CATEGORIES ==
    {"Internet", "Mobile", "C1cyr", "Udalyonka", "Printer", "Komputer",
     "Propusk", "Dver", "ECP", "Drugoe"}

\* _policy_for with the last return giving the unknown categories to Artur
_policy_for_unknown_artur(category) ==
    IF category \in ONLY_ARTUR THEN "ARTUR"
    ELSE IF category \in ONLY_ANDREY THEN "ANDREY"
    ELSE IF category \in BOTH THEN "BOTH"
    ELSE "ARTUR"

\* _policy_for(category): unknown categories fall to "BOTH"
_policy_for(category) ==
    IF category \in ONLY_ARTUR THEN "ARTUR"
    ELSE IF category \in ONLY_ANDREY THEN "ANDREY"
    ELSE IF category \in BOTH THEN "BOTH"
    ELSE "BOTH"

\* "count_open_tasks(...) if ID else 999"
UnconfiguredOpen == 999

EffOpen(id, open) == IF id # None THEN open ELSE UnconfiguredOpen

\* assign_by_category that breaks a tie of the open counts in Artur's favour
assign_by_category_tie_artur(artur, andrey, category, a_open, k_open) ==
    LET policy == _policy_for(category)
        a == EffOpen(artur, a_open)
        k == EffOpen(andrey, k_open)
    IN  IF policy = "ARTUR" /\ artur # None THEN [notify |-> <<artur>>, assignee |-> artur]
        ELSE IF policy = "ANDREY" /\ andrey # None THEN [notify |-> <<andrey>>, assignee |-> andrey]
        ELSE IF artur # None /\ (andrey = None \/ a <= k)
            THEN [notify |-> <<artur>>, assignee |-> None]
        ELSE IF andrey # None THEN [notify |-> <<andrey>>, assignee |-> None]
        ELSE [notify |-> <<>>, assignee |-> None]

\* assign_by_category with the comparison of the open counts reversed
assign_by_category_swapped(artur, andrey, category, a_open, k_open) ==
    LET policy == _policy_for(category)
        a == EffOpen(artur, a_open)
        k == EffOpen(andrey, k_open)
    IN  IF policy = "ARTUR" /\ artur # None THEN [notify |-> <<artur>>, assignee |-> artur]
        ELSE IF policy = "ANDREY" /\ andrey # None THEN [notify |-> <<andrey>>, assignee |-> andrey]
        ELSE IF artur # None /\ andrey # None /\ a = k
            THEN [notify |-> <<artur, andrey>>, assignee |-> None]
        ELSE IF artur # None /\ (andrey = None \/ a > k)
            THEN [notify |-> <<artur>>, assignee |-> None]
        ELSE IF andrey # None THEN [notify |-> <<andrey>>, assignee |-> None]
        ELSE [notify |-> <<>>, assignee |-> None]

\* assign_by_category(session, category) -> (notify_ids, assignee_or_None), with
\* the two admin ids and the two count_open_tasks results as parameters
assign_by_category(artur, andrey, category, a_open, k_open) ==
    LET policy == _policy_for(category)
        a == EffOpen(artur, a_open)
        k == EffOpen(andrey, k_open)
    IN  IF policy = "ARTUR" /\ artur # None THEN [notify |-> <<artur>>, assignee |-> artur]
        ELSE IF policy = "ANDREY" /\ andrey # None THEN [notify |-> <<andrey>>, assignee |-> andrey]
        ELSE IF artur # None /\ andrey # None /\ a = k
            THEN [notify |-> <<artur, andrey>>, assignee |-> None]
        ELSE IF artur # None /\ (andrey = None \/ a < k)
            THEN [notify |-> <<artur>>, assignee |-> None]
        ELSE IF andrey # None THEN [notify |-> <<andrey>>, assignee |-> None]
        ELSE [notify |-> <<>>, assignee |-> None]

\* dispatch_new_task(bot, session, task) -> NewTaskDispatchResult: what it reports
\* (sent_to, assigned_immediately_to) and the status/assignee it stores on the task
dispatch_new_task(artur, andrey, category, a_open, k_open) ==
    LET policy == _policy_for(category)
        a == EffOpen(artur, a_open)
        k == EffOpen(andrey, k_open)
        keep == [status |-> Status_NEW, assignee |-> None]
    IN  IF policy = "ARTUR"
        THEN [sent_to |-> <<TRUE, FALSE>>, assigned_immediately_to |-> artur,
              task |-> [status |-> STATUS_ASSIGNED_VALUE, assignee |-> artur]]
        ELSE IF policy = "ANDREY"
        THEN [sent_to |-> <<FALSE, TRUE>>, assigned_immediately_to |-> andrey,
              task |-> [status |-> STATUS_ASSIGNED_VALUE, assignee |-> andrey]]
        ELSE IF artur # None /\ andrey # None /\ a = k
        THEN [sent_to |-> <<TRUE, TRUE>>, assigned_immediately_to |-> None, task |-> keep]
        ELSE IF artur # None /\ (andrey = None \/ a < k)
        THEN [sent_to |-> <<TRUE, FALSE>>, assigned_immediately_to |-> None, task |-> keep]
        ELSE IF andrey # None
        THEN [sent_to |-> <<FALSE, TRUE>>, assigned_immediately_to |-> None, task |-> keep]
        ELSE [sent_to |-> <<FALSE, FALSE>>, assigned_immediately_to |-> None, task |-> keep]

\* the elements of a tuple of ids
Range(s) == {s[i] : i \in DOMAIN s}


(***************************************************************************)
(* State.                                                                  *)
(*   tasks           the tasks table, committed rows; the id is the index  *)
(*   admin_msgs      InMemoryNotifications._admin_msgs                     *)
(*   cards           the card messages alive in the staff chats            *)
(*   next_msg        the gateway's next message id for a card              *)
(*   procs           the handlers in flight on the ticket flows            *)
(*   wins            per task, the claimants whose UPDATE matched a row    *)
(*   ADMIN_ANCHOR, BOSS_ANCHOR   the anchor maps of admin.py and boss.py   *)
(*   screen_msgs     the screen messages alive in the staff chats          *)
(*   next_screen     the gateway's next message id for a screen            *)
(*   rend            the anchor renders in flight                          *)
(*   refused         screen messages whose delete the gateway refused      *)
(*   pol             inputs and results of the assignment policy           *)
(*   calls           the calls made on the ledger alone, in order          *)
(*   user_msg        InMemoryNotifications._user_msg                       *)
(*   safe            the safe_bulk_delete in flight (telegram_safe.py)     *)
(*   DRAFTS          the drafts being collected (utils/media.py)           *)
(*   made            for each draft picked, the tickets made from it       *)
(*   notices         the closure notices sent to the authors               *)
(*   dels            the deletions of notices in flight                    *)
(*   now             the clock, in ticks                                   *)
(*   _events         MemoryBucket._events of the one user, by kind         *)
(*   _last_warn      AntiSpamMiddleware._last_warn, the :last_ts keys      *)
(*   passed          the times at which a message passed the anti-spam     *)
(*   FAILS           _AuthBrute.FAILS                                      *)
(*   state_name      the FSM state of each user                            *)
(*   authed          User.is_authenticated of each user                    *)
(*   streak          wrong passphrases in a row since the last ban         *)
(*   handled         what became of the last message                       *)
(***************************************************************************)
VARIABLES tasks, admin_msgs, cards, next_msg, procs, wins,
          ADMIN_ANCHOR, BOSS_ANCHOR, screen_msgs, next_screen, rend, refused,
          pol, calls, user_msg, safe,
          DRAFTS, made, notices, dels, now, _events, _last_warn, passed, FAILS, state_name, authed, streak, handled

ticket_vars == <<tasks, admin_msgs, cards, next_msg, procs, wins>>
anchor_vars == <<ADMIN_ANCHOR, BOSS_ANCHOR, screen_msgs, next_screen, rend, refused>>
vars == <<tasks, admin_msgs, cards, next_msg, procs, wins,
          ADMIN_ANCHOR, BOSS_ANCHOR, screen_msgs, next_screen, rend, refused, pol,
          calls, user_msg, safe,
          DRAFTS, made, notices, dels, now, _events, _last_warn, passed, FAILS, state_name, authed, streak, handled>>

\* the drafts of the users, the closure notices and their deletions
draft_vars == <<DRAFTS, made, notices, dels>>
\* the clock, the anti-spam middleware's bucket and the passphrase failures
gate_vars == <<now, _events, _last_warn, passed, FAILS, state_name, authed, streak, handled>>

(***************************************************************************)
(* Bounds                                                                  *)
(***************************************************************************)
\* open-ticket counts tried on the policy
MaxOpen == 2
\* screen messages the gateway hands out
MaxScreenMsgs == 3
\* rows of the tasks table
MaxTasks == 1
\* card messages the gateway hands out
MaxMsgs == 2
\* tickets in the table when claims are made from the task list
MaxListed == 2
\* voice messages attached to a ticket
MaxVoices == 1
\* calls made on the ledger alone
MaxCalls == 3
\* message ids in a list passed to safe_bulk_delete
MaxBulk == 2
\* values of max_attempts tried on call_with_retry (its default is 5)
MaxAttempts == 5
\* the drafts a user starts
MaxDrafts == 1
\* closure notices sent to the submitting user
MaxNotices == 2
\* the last tick of the clock
MaxClock == 5
\* events of one kind a user sends within one window
MaxBurst == 3

(***************************************************************************)
(* Anchor screen renderer: _show_anchor of admin.py and of boss.py, with   *)
(* the callers' read of the anchor map before and write after.             *)
(***************************************************************************)
\* a screen is a text with an inline keyboard: the panel, the task list
Screens ==
    { [text |-> "panel", kb |-> "menu"],
      [text |-> "tasks", kb |-> "rows"] }

\* the renders of two updates in flight at once
Renders == {1, 2}

\* the chats a renderer draws in: cmd_admin and the a:* callbacks pass is_admin
\* (the boss included), cmd_boss and the b:* callbacks pass is_boss
MayRender(kind, chat) == IF kind = "admin" THEN is_admin(chat) ELSE is_boss(chat)

\* ADMIN_ANCHOR.get(chat) / BOSS_ANCHOR.get(chat)
AnchorGet(kind, chat) == IF kind = "admin" THEN ADMIN_ANCHOR[chat] ELSE BOSS_ANCHOR[chat]

\* ADMIN_ANCHOR[chat] = new_id / BOSS_ANCHOR[chat] = new_id
AnchorSet(kind, chat, new_id) ==
    IF kind = "admin"
    THEN /\ ADMIN_ANCHOR' = [ADMIN_ANCHOR EXCEPT ![chat] = new_id]
         /\ UNCHANGED BOSS_ANCHOR
    ELSE /\ BOSS_ANCHOR' = [BOSS_ANCHOR EXCEPT ![chat] = new_id]
         /\ UNCHANGED ADMIN_ANCHOR

ScreenLive(chat, id) == \E m \in screen_msgs : m.chat = chat /\ m.id = id

ScreenOf(chat, id) == CHOOSE m \in screen_msgs : m.chat = chat /\ m.id = id

\* bot.edit_message_text: the gateway's possible answers.  "not_modified" and
\* "bad_request" are TelegramBadRequest, "error" is any other exception.
EditTextOutcomes(chat, id, text, kb) ==
    (IF ~ScreenLive(chat, id) THEN {"bad_request"}
     ELSE IF ScreenOf(chat, id).text = text /\ ScreenOf(chat, id).kb = kb
          THEN {"not_modified"} ELSE {"ok"})
    \cup {"bad_request", "error"}

\* bot.edit_message_reply_markup: the gateway's possible answers
EditMarkupOutcomes(chat, id, kb) ==
    (IF ~ScreenLive(chat, id) THEN {"bad_request"}
     ELSE IF ScreenOf(chat, id).kb = kb THEN {"not_modified"} ELSE {"ok"})
    \cup {"bad_request", "error"}

\* bot.delete_message: the gateway's possible answers
DeleteOutcomes(chat, id) ==
    IF ScreenLive(chat, id) THEN {"ok", "refused"} ELSE {"refused"}

\* the chat's messages after an accepted edit
ScreenEdited(chat, id, text, kb) ==
    (screen_msgs \ {ScreenOf(chat, id)})
        \cup {[chat |-> chat, id |-> id, text |-> text, kb |-> kb]}

\* the chat's messages and the refused deletes after bot.delete_message
ScreenDeleted(chat, id, o) ==
    /\ screen_msgs' = IF o = "ok" THEN screen_msgs \ {ScreenOf(chat, id)} ELSE screen_msgs
    /\ refused' = IF o = "refused" /\ ScreenLive(chat, id)
                  THEN refused \cup {<<chat, id>>} ELSE refused

\* a render not started; not_modified, delete_tried and sent record what the
\* render in flight has met and done so far
IdleRender ==
    [pc |-> "idle", kind |-> "admin", chat |-> None, anchor_id |-> None,
     text |-> "", kb |-> "", result |-> None,
     not_modified |-> FALSE, delete_tried |-> FALSE, sent |-> FALSE]

\* no render in flight
Quiescent == \A p \in Renders : rend[p].pc = "idle"

\* _show_anchor returns id and the caller stores it in its anchor map
Return(p, id) ==
    /\ rend' = [rend EXCEPT ![p] = IdleRender]
    /\ AnchorSet(rend[p].kind, rend[p].chat, id)

\* _show_anchor raises: the caller's store is not reached
Raise(p) ==
    /\ rend' = [rend EXCEPT ![p] = IdleRender]
    /\ UNCHANGED <<ADMIN_ANCHOR, BOSS_ANCHOR>>

\* _show_anchor (admin.py), lines 319-333: where a TelegramBadRequest of the text
\* edit leads: "message is not modified" to the keyboard-only edit, any other to
\* the delete of the stale anchor
AdminAfterBadRequest(o) == IF o = "not_modified" THEN "markup" ELSE "delete"

\* the caller reads the anchor map and enters _show_anchor: "if anchor_id:" picks
\* the edit, otherwise the send
BeginRender(p, kind, chat, scr) ==
    /\ rend[p].pc = "idle"
    /\ MayRender(kind, chat)
    /\ next_screen + Cardinality({q \in Renders : rend[q].pc # "idle"}) <= MaxScreenMsgs
    /\ LET a == AnchorGet(kind, chat)
       IN  rend' = [rend EXCEPT ![p] =
                      [IdleRender EXCEPT !.pc = IF a # None THEN "edit" ELSE "send",
                                         !.kind = kind, !.chat = chat, !.anchor_id = a,
                                         !.text = scr.text, !.kb = scr.kb]]
    /\ UNCHANGED <<ADMIN_ANCHOR, BOSS_ANCHOR, screen_msgs, next_screen, refused>>
    /\ UNCHANGED <<ticket_vars, pol, calls, user_msg, safe, draft_vars, gate_vars>>

\* admin.py _show_anchor: await bot.edit_message_text(...); a TelegramBadRequest
\* is handled, any other exception propagates
AdminEdit(p) ==
    /\ rend[p].pc = "edit" /\ rend[p].kind = "admin"
    /\ LET r == rend[p]
       IN \E o \in EditTextOutcomes(r.chat, r.anchor_id, r.text, r.kb) :
            CASE o = "ok" ->
                   /\ screen_msgs' = ScreenEdited(r.chat, r.anchor_id, r.text, r.kb)
                   /\ Return(p, r.anchor_id)
              [] o = "error" ->
                   /\ Raise(p)
                   /\ UNCHANGED screen_msgs
              [] OTHER ->
                   /\ rend' = [rend EXCEPT ![p].pc = AdminAfterBadRequest(o),
                                           ![p].not_modified = (o = "not_modified")]
                   /\ UNCHANGED <<screen_msgs, ADMIN_ANCHOR, BOSS_ANCHOR>>
    /\ UNCHANGED <<next_screen, refused>>
    /\ UNCHANGED <<ticket_vars, pol, calls, user_msg, safe, draft_vars, gate_vars>>

\* admin.py _show_anchor: await bot.edit_message_reply_markup(...) after
\* "message is not modified"; any exception falls through to the delete
AdminMarkup(p) ==
    /\ rend[p].pc = "markup" /\ rend[p].kind = "admin"
    /\ LET r == rend[p]
       IN \E o \in EditMarkupOutcomes(r.chat, r.anchor_id, r.kb) :
            IF o = "ok"
            THEN /\ screen_msgs' = ScreenEdited(r.chat, r.anchor_id,
                                                ScreenOf(r.chat, r.anchor_id).text, r.kb)
                 /\ Return(p, r.anchor_id)
            ELSE /\ rend' = [rend EXCEPT ![p].pc = "delete",
                                         ![p].not_modified = (o = "not_modified")]
                 /\ UNCHANGED <<screen_msgs, ADMIN_ANCHOR, BOSS_ANCHOR>>
    /\ UNCHANGED <<next_screen, refused>>
    /\ UNCHANGED <<ticket_vars, pol, calls, user_msg, safe, draft_vars, gate_vars>>

\* admin.py _show_anchor: try: await bot.delete_message(chat_id, anchor_id)
\* except Exception: pass
AdminDelete(p) ==
    /\ rend[p].pc = "delete" /\ rend[p].kind = "admin"
    /\ LET r == rend[p]
       IN \E o \in DeleteOutcomes(r.chat, r.anchor_id) :
            /\ ScreenDeleted(r.chat, r.anchor_id, o)
            /\ rend' = [rend EXCEPT ![p].pc = "send", ![p].delete_tried = TRUE]
    /\ UNCHANGED <<ADMIN_ANCHOR, BOSS_ANCHOR, next_screen>>
    /\ UNCHANGED <<ticket_vars, pol, calls, user_msg, safe, draft_vars, gate_vars>>

\* admin.py _show_anchor: msg = await bot.send_message(...); return msg.message_id,
\* and the caller's ADMIN_ANCHOR[admin_id] = new_id.  A failed send raises.
AdminSend(p) ==
    /\ rend[p].pc = "send" /\ rend[p].kind = "admin"
    /\ LET r == rend[p]
       IN \/ /\ screen_msgs' = screen_msgs \cup
                    {[chat |-> r.chat, id |-> next_screen, text |-> r.text, kb |-> r.kb]}
             /\ next_screen' = next_screen + 1
             /\ Return(p, next_screen)
          \/ /\ Raise(p)
             /\ UNCHANGED <<screen_msgs, next_screen>>
    /\ UNCHANGED refused
    /\ UNCHANGED <<ticket_vars, pol, calls, user_msg, safe, draft_vars, gate_vars>>

\* boss.py _show_anchor: await bot.edit_message_text(...); every exception is
\* swallowed and leads to the send
BossEdit(p) ==
    /\ rend[p].pc = "edit" /\ rend[p].kind = "boss"
    /\ LET r == rend[p]
       IN \E o \in EditTextOutcomes(r.chat, r.anchor_id, r.text, r.kb) :
            IF o = "ok"
            THEN /\ screen_msgs' = ScreenEdited(r.chat, r.anchor_id, r.text, r.kb)
                 /\ Return(p, r.anchor_id)
            ELSE /\ rend' = [rend EXCEPT ![p].pc = "send",
                                         ![p].not_modified = (o = "not_modified")]
                 /\ UNCHANGED <<screen_msgs, ADMIN_ANCHOR, BOSS_ANCHOR>>
    /\ UNCHANGED <<next_screen, refused>>
    /\ UNCHANGED <<ticket_vars, pol, calls, user_msg, safe, draft_vars, gate_vars>>

\* boss.py _show_anchor: msg = await bot.send_message(...); with a previous anchor
\* the delete follows, otherwise return and the caller's BOSS_ANCHOR[...] = new_id
BossSend(p) ==
    /\ rend[p].pc = "send" /\ rend[p].kind = "boss"
    /\ LET r == rend[p]
       IN \/ /\ screen_msgs' = screen_msgs \cup
                    {[chat |-> r.chat, id |-> next_screen, text |-> r.text, kb |-> r.kb]}
             /\ next_screen' = next_screen + 1
             /\ IF r.anchor_id # None /\ r.anchor_id # next_screen
                THEN /\ rend' = [rend EXCEPT ![p].pc = "delete", ![p].sent = TRUE,
                                             ![p].result = next_screen]
                     /\ UNCHANGED <<ADMIN_ANCHOR, BOSS_ANCHOR>>
                ELSE Return(p, next_screen)
          \/ /\ Raise(p)
             /\ UNCHANGED <<screen_msgs, next_screen>>
    /\ UNCHANGED refused
    /\ UNCHANGED <<ticket_vars, pol, calls, user_msg, safe, draft_vars, gate_vars>>

\* boss.py _show_anchor: try: await bot.delete_message(chat_id, anchor_id)
\* except Exception: pass; return msg.message_id, and BOSS_ANCHOR[...] = new_id
BossDelete(p) ==
    /\ rend[p].pc = "delete" /\ rend[p].kind = "boss"
    /\ LET r == rend[p]
       IN \E o \in DeleteOutcomes(r.chat, r.anchor_id) :
            /\ ScreenDeleted(r.chat, r.anchor_id, o)
            /\ Return(p, r.result)
    /\ UNCHANGED next_screen
    /\ UNCHANGED <<ticket_vars, pol, calls, user_msg, safe, draft_vars, gate_vars>>


(***************************************************************************)
(* Ticket store and notification ledger                                    *)
(***************************************************************************)
\* the rows the tasks table can hold
TaskIds == 1..(IF MaxListed > MaxTasks THEN MaxListed ELSE MaxTasks)
MsgIds == 1..MaxMsgs
\* the handlers of two updates in flight at once
Procs == {1, 2}

\* the scores a rating callback may carry (cb_rate accepts 1..10)
RateInputs == {0, 10, 11}

\* the scores tried where a second rating matters: two accepted, two refused
RateScores == {0, 1, 10, 11}

\* select(Task).where(Task.id == task_id) finds a row
TaskExists(t) == t \in 1..Len(tasks)

\* the stored status and assignee of a task, of no row for an unknown id
Row(t) ==
    IF TaskExists(t) THEN [status |-> tasks[t].status, assignee |-> tasks[t].assignee]
    ELSE [status |-> "", assignee |-> None]

\* Task(...) as the flows construct it
NewTask(assignee) ==
    [status |-> Status_NEW, assignee |-> assignee, final_complexity |-> None]

\* count_open_tasks(session, assignee_tg_id)
count_open_tasks(assignee_tg_id) ==
    Cardinality({t \in 1..Len(tasks) :
        tasks[t].assignee = assignee_tg_id /\ tasks[t].status \in OPEN_STATUSES})

\* InMemoryNotifications.get_admin_msgs(task_id, admin_id)
get_admin_msgs(msgs, task_id, admin_id) == msgs[task_id][admin_id]

\* remember_admin that records nothing
remember_admin_lost(msgs, task_id, admin_id, chat_id, message_id) == msgs

\* remember_admin that keeps the last location only
remember_admin_last(msgs, task_id, admin_id, chat_id, message_id) ==
    [msgs EXCEPT ![task_id][admin_id] = <<<<chat_id, message_id>>>>]

\* InMemoryNotifications.remember_admin(task_id, admin_id, chat_id, message_id)
remember_admin(msgs, task_id, admin_id, chat_id, message_id) ==
    [msgs EXCEPT ![task_id][admin_id] = Append(@, <<chat_id, message_id>>)]

\* InMemoryNotifications.forget_admin_all(task_id) in the place of forget_admin
forget_admin_whole_task(msgs, task_id, admin_id) ==
    [msgs EXCEPT ![task_id] = [a \in DOMAIN msgs[task_id] |-> <<>>]]

\* InMemoryNotifications.forget_admin(task_id, admin_id)
forget_admin(msgs, task_id, admin_id) ==
    [msgs EXCEPT ![task_id][admin_id] = <<>>]

\* forget_admin_all that drops the records of every ticket
forget_admin_all_tickets(msgs, task_id) ==
    [t \in DOMAIN msgs |-> [a \in DOMAIN msgs[t] |-> <<>>]]

\* InMemoryNotifications.forget_admin_all(task_id): _admin_msgs.pop(task_id)
forget_admin_all(msgs, task_id) ==
    [msgs EXCEPT ![task_id] = [a \in DOMAIN msgs[task_id] |-> <<>>]]

\* task.author_tg_id: the chat of a submitting user, no staff member
AUTHOR_ID == 4

\* InMemoryNotifications.remember_user(task_id, chat_id, message_id): one slot
\* per task, overwritten; an empty tuple is "no entry"
remember_user(slots, task_id, chat_id, message_id) ==
    [slots EXCEPT ![task_id] = <<chat_id, message_id>>]

\* InMemoryNotifications.forget_user(task_id)
forget_user(slots, task_id) == [slots EXCEPT ![task_id] = <<>>]

\* the WHERE clause of the claim: id = task_id AND status = NEW AND assignee IS NULL
ClaimMatchesAnyRow(t) == TaskExists(t)

ClaimMatches(t) ==
    /\ TaskExists(t)
    /\ tasks[t].status = Status_NEW
    /\ tasks[t].assignee = None

\* the VALUES of the claim: status = ASSIGNED alias, assignee = the claimant
ClaimValues(t, me) ==
    [tasks EXCEPT ![t].status = STATUS_ASSIGNED_VALUE, ![t].assignee = me]

\* cb_done: task.assignee_tg_id = cb.from_user.id; task.status = CLOSED
DoneValuesReopen(t, me) ==
    [tasks EXCEPT ![t].assignee = me,
                  ![t].status = IF @ = Status_CLOSED THEN Status_IN_PROGRESS
                                ELSE Status_CLOSED]

DoneValues(t, me) ==
    [tasks EXCEPT ![t].assignee = me, ![t].status = Status_CLOSED]

\* the staff members whose cards cb_accept removes: the claimant, then
\* _other_admin_id(claimant) when there is one
AcceptTargets(me) ==
    IF _other_admin_id(me) # None THEN <<me, _other_admin_id(me)>> ELSE <<me>>

\* cleanup_admin_cards: for admin_id in (ARTUR_ID, ANDREY_ID)
CleanupTargets == <<ARTUR_ID, ANDREY_K_ID>>

\* _remove_task_card_if_any / _delete_admin_cards_if_any return at once, without
\* an await, for a pair with no records: the targets from the first with records
RECURSIVE SkipEmpty(_, _, _)
SkipEmpty(msgs, t, targets) ==
    IF targets = <<>> THEN <<>>
    ELSE IF get_admin_msgs(msgs, t, Head(targets)) # <<>> THEN targets
    ELSE SkipEmpty(msgs, t, Tail(targets))

\* _render_my_tasks(session, me): the rows the list shows, those not CLOSED that
\* are mine or are NEW and unassigned
_render_my_tasks(rows, me) ==
    {t \in 1..Len(rows) :
        /\ rows[t].status # Status_CLOSED
        /\ \/ rows[t].assignee = me
           \/ rows[t].assignee = None /\ rows[t].status = Status_NEW}

\* _my_tasks_kb with the accept button on every row of the list
_my_tasks_kb_all(rows, listed) == listed

\* _my_tasks_kb(tasks, me): the rows whose right button is "a:accept", the other
\* rows get "a:done"
_my_tasks_kb(rows, listed) ==
    {t \in listed : rows[t].status = Status_NEW /\ rows[t].assignee = None}

\* a handler not started.  In flight it keeps its locals (me, task, clicked,
\* targets, infos, notify) and what it has met and done so far: pre is the row
\* its UPDATE met, notified the staff with ledger records of the task when the
\* claim was committed, outcome and told the notice it answers with, msg_ops and
\* ledger_ops whether it has deleted or edited a message and changed the ledger,
\* confirmed whether it has sent or updated a message for the submitting user,
\* offer the tickets its task list shows with the accept button, voices the voice
\* attachments of the draft and left those still to send to the current admin,
\* store the failure of the store that has ended it.
\* A handler that ends is idle again.
\* DRAFTS.get(uid) of a user without a draft; DraftData() has category None,
\* written "", and no attachments.  serial numbers the drafts cb_pick_category
\* makes, 0 for a draft that `collecting` makes by setdefault
NoDraft == [present |-> FALSE, category |-> "", voices |-> 0, serial |-> 0]

IdleProc ==
    [kind |-> "", pc |-> "idle", me |-> None, task |-> None, clicked |-> None,
     targets |-> <<>>, infos |-> <<>>, notify |-> <<>>,
     told |-> "", outcome |-> "",
     pre |-> [status |-> "", assignee |-> None], notified |-> {},
     msg_ops |-> FALSE, ledger_ops |-> FALSE, confirmed |-> FALSE, offer |-> {},
     voices |-> 0, left |-> 0, store |-> "", draft |-> NoDraft]

\* the dispatcher can start the handler of a new update
Free(p) == procs[p].pc = "idle"

\* the (chat_id, message_id) pair the ledger keeps for a card
CardKey(c) == <<c.chat, c.id>>

\* the accept buttons a staff member can press for a task: on a live card of the
\* chat, or (None) on the row of the task list
Clickable(me, t) ==
    {None} \cup {c.id : c \in {d \in cards : d.chat = me /\ d.task = t /\ d.kb = "accept"}}

\* where a handler continues once the cards of its targets are removed
AfterRemove(kind) ==
    IF kind = "accept" THEN "del_clicked"
    ELSE IF kind = "close" THEN "notice"
    ELSE "idle"

\* the handler's position before the removal of the cards of `targets`
ToRemove(rec, msgs, targets, after) ==
    LET rest == SkipEmpty(msgs, rec.task, targets)
    IN  IF rest = <<>>
        THEN IF after = "idle" THEN IdleProc
             ELSE [rec EXCEPT !.pc = after, !.targets = <<>>, !.infos = <<>>]
        ELSE [rec EXCEPT !.pc = "rm", !.targets = rest,
                         !.infos = get_admin_msgs(msgs, rec.task, Head(rest))]

(***************************************************************************)
(* Ticket creation                                                         *)
(***************************************************************************)
\* _finalize_ticket of a draft with `voices` voice attachments: Task(status=NEW),
\* assign_by_category, task.assignee_tg_id = assignee, commit, then the "ticket
\* created" confirmation for the submitting user
FinalizeDraft(p, category, voices) ==
    /\ Free(p)
    /\ Len(tasks) < MaxTasks
    /\ LET r == assign_by_category(ARTUR_ID, ANDREY_K_ID, category,
                                   count_open_tasks(ARTUR_ID), count_open_tasks(ANDREY_K_ID))
       IN /\ tasks' = Append(tasks, NewTask(r.assignee))
          /\ procs' = [procs EXCEPT ![p] =
                IF r.notify = <<>> THEN IdleProc
                ELSE [IdleProc EXCEPT !.kind = "finalize", !.task = Len(tasks) + 1,
                                      !.notify = r.notify, !.pc = "notify",
                                      !.confirmed = TRUE, !.voices = voices]]
    /\ UNCHANGED <<admin_msgs, cards, next_msg, wins>>
    /\ UNCHANGED <<anchor_vars, pol, calls, user_msg, safe, draft_vars, gate_vars>>

\* _finalize_ticket of a draft of text only
FinalizeCreate(p, category) == FinalizeDraft(p, category, 0)

\* _finalize_ticket, "for admin_id in notify_ids": the card with the accept
\* button, on an exception the fallback card without a keyboard, on another
\* exception nothing; each sent message is remembered; then the voices, if any
FinalizeNotify(p) ==
    /\ procs[p].pc = "notify" /\ procs[p].kind = "finalize"
    /\ LET r == procs[p]
           a == Head(r.notify)
           next == IF r.voices > 0 THEN [r EXCEPT !.pc = "voice", !.left = r.voices]
                   ELSE IF Tail(r.notify) = <<>> THEN IdleProc
                   ELSE [r EXCEPT !.notify = Tail(r.notify)]
       IN \/ \E kb \in {"accept", "none"} :
               /\ next_msg <= MaxMsgs
               /\ cards' = cards \cup {[chat |-> a, id |-> next_msg, task |-> r.task, kb |-> kb]}
               /\ admin_msgs' = remember_admin(admin_msgs, r.task, a, a, next_msg)
               /\ next_msg' = next_msg + 1
               /\ procs' = [procs EXCEPT ![p] = next]
          \/ /\ procs' = [procs EXCEPT ![p] = next]
             /\ UNCHANGED <<cards, admin_msgs, next_msg>>
    /\ UNCHANGED <<tasks, wins>>
    /\ UNCHANGED <<anchor_vars, pol, calls, user_msg, safe, draft_vars, gate_vars>>

\* _send_admin_voices for the current admin: m = await bot.send_voice(...), then
\* remember_admin; a voice the gateway refuses is skipped
FinalizeVoice(p) ==
    /\ procs[p].pc = "voice" /\ procs[p].kind = "finalize"
    /\ LET r == procs[p]
           a == Head(r.notify)
           next == IF r.left > 1 THEN [r EXCEPT !.left = r.left - 1]
                   ELSE IF Tail(r.notify) = <<>> THEN IdleProc
                   ELSE [r EXCEPT !.pc = "notify", !.notify = Tail(r.notify), !.left = 0]
       IN \/ /\ next_msg <= MaxMsgs
             /\ cards' = cards \cup
                    {[chat |-> a, id |-> next_msg, task |-> r.task, kb |-> "none"]}
             /\ admin_msgs' = remember_admin(admin_msgs, r.task, a, a, next_msg)
             /\ next_msg' = next_msg + 1
             /\ procs' = [procs EXCEPT ![p] = next]
          \/ /\ procs' = [procs EXCEPT ![p] = next]
             /\ UNCHANGED <<cards, admin_msgs, next_msg>>
    /\ UNCHANGED <<tasks, wins>>
    /\ UNCHANGED <<anchor_vars, pol, calls, user_msg, safe, draft_vars, gate_vars>>

\* add_pick_assignee: Task(status=NEW, assignee_tg_id=assignee_id), commit
add_pick_assignee(me, who) ==
    /\ Len(tasks) < MaxTasks
    /\ LET assignee_id == IF who = "colleague" THEN _pick_colleague(me) ELSE me
       IN tasks' = Append(tasks, NewTask(assignee_id))
    /\ UNCHANGED <<admin_msgs, cards, next_msg, procs, wins>>
    /\ UNCHANGED <<anchor_vars, pol, calls, user_msg, safe, draft_vars, gate_vars>>

\* b_done: Task(status=NEW, assignee_tg_id=None, is_internal=True), commit
BossCreate(p, admin) ==
    /\ Free(p)
    /\ Len(tasks) < MaxTasks
    /\ tasks' = Append(tasks, NewTask(None))
    /\ procs' = [procs EXCEPT ![p] =
          [IdleProc EXCEPT !.kind = "boss", !.me = BOSS_ANDREY_T_ID, !.task = Len(tasks) + 1,
                           !.notify = <<admin>>, !.pc = "notify"]]
    /\ UNCHANGED <<admin_msgs, cards, next_msg, wins>>
    /\ UNCHANGED <<anchor_vars, pol, calls, user_msg, safe, draft_vars, gate_vars>>

\* _send_boss_task_to_admin without media: the card with the accept button is
\* sent and remembered, or the exception is swallowed
BossNotify(p) ==
    /\ procs[p].pc = "notify" /\ procs[p].kind = "boss"
    /\ LET r == procs[p]
           a == Head(r.notify)
           next == IdleProc
       IN \/ /\ next_msg <= MaxMsgs
             /\ cards' = cards \cup
                    {[chat |-> a, id |-> next_msg, task |-> r.task, kb |-> "accept"]}
             /\ admin_msgs' = remember_admin(admin_msgs, r.task, a, a, next_msg)
             /\ next_msg' = next_msg + 1
             /\ procs' = [procs EXCEPT ![p] = next]
          \/ /\ procs' = [procs EXCEPT ![p] = next]
             /\ UNCHANGED <<cards, admin_msgs, next_msg>>
    /\ UNCHANGED <<tasks, wins>>
    /\ UNCHANGED <<anchor_vars, pol, calls, user_msg, safe, draft_vars, gate_vars>>

\* dispatch_new_task, called on a saved task: an exclusive category is assigned
\* at once and committed (its "claimed" message is no card of the ledger); a
\* category of the 'both' class leaves the task NEW and the cards of the chosen
\* admins are sent next, one _send_admin_card after the other
DispatchSave(p, category) ==
    /\ Free(p)
    /\ Len(tasks) < MaxTasks
    /\ LET r == dispatch_new_task(ARTUR_ID, ANDREY_K_ID, category,
                                  count_open_tasks(ARTUR_ID), count_open_tasks(ANDREY_K_ID))
           to == (IF r.sent_to[1] THEN <<ARTUR_ID>> ELSE <<>>) \o
                 (IF r.sent_to[2] THEN <<ANDREY_K_ID>> ELSE <<>>)
       IN /\ tasks' = Append(tasks, [NewTask(r.task.assignee) EXCEPT !.status = r.task.status])
          /\ procs' = [procs EXCEPT ![p] =
                IF r.assigned_immediately_to # None \/ to = <<>> THEN IdleProc
                ELSE [IdleProc EXCEPT !.kind = "dispatch", !.task = Len(tasks) + 1,
                                      !.notify = to, !.pc = "notify"]]
    /\ UNCHANGED <<admin_msgs, cards, next_msg, wins>>
    /\ UNCHANGED <<anchor_vars, pol, calls, user_msg, safe, draft_vars, gate_vars>>

\* _send_admin_card inside dispatch_new_task: msg = await bot.send_message(...),
\* then remember_admin; no try around it, so a refusal of the gateway raises out
\* of dispatch_new_task and the cards still to send are not sent
DispatchSend(p) ==
    /\ procs[p].pc = "notify" /\ procs[p].kind = "dispatch"
    /\ LET r == procs[p]
           a == Head(r.notify)
       IN \/ /\ next_msg <= MaxMsgs
             /\ cards' = cards \cup
                    {[chat |-> a, id |-> next_msg, task |-> r.task, kb |-> "accept"]}
             /\ admin_msgs' = remember_admin(admin_msgs, r.task, a, a, next_msg)
             /\ next_msg' = next_msg + 1
             /\ procs' = [procs EXCEPT ![p] =
                   IF Tail(r.notify) = <<>> THEN IdleProc
                   ELSE [r EXCEPT !.notify = Tail(r.notify)]]
          \/ /\ procs' = [procs EXCEPT ![p] = IdleProc]
             /\ UNCHANGED <<cards, admin_msgs, next_msg>>
    /\ UNCHANGED <<tasks, wins>>
    /\ UNCHANGED <<anchor_vars, pol, calls, user_msg, safe, draft_vars, gate_vars>>


(***************************************************************************)
(* Claim coordinator: cb_accept                                            *)
(***************************************************************************)
\* cb_accept up to the answer of the conditional UPDATE: with a matched row the
\* commit, then the snapshot of the first cards to remove; without one the
\* delete of the clicked message comes next
AcceptUpdate(p, me, t, clicked) ==
    /\ Free(p)
    /\ is_admin(me)
    /\ clicked \in Clickable(me, t)
    /\ LET rec == [IdleProc EXCEPT !.kind = "accept", !.me = me, !.task = t,
                                   !.clicked = clicked, !.pre = Row(t)]
       IN IF ClaimMatches(t)
          THEN /\ tasks' = ClaimValues(t, me)
               /\ wins' = [wins EXCEPT ![t] = Append(@, me)]
               /\ procs' = [procs EXCEPT ![p] =
                     ToRemove([rec EXCEPT !.outcome = "won",
                                          !.notified = {s \in staff_ids :
                                              get_admin_msgs(admin_msgs, t, s) # <<>>}],
                              admin_msgs, AcceptTargets(me), AfterRemove("accept"))]
          ELSE /\ procs' = [procs EXCEPT ![p] = [rec EXCEPT !.pc = "del_clicked"]]
               /\ UNCHANGED <<tasks, wins>>
    /\ UNCHANGED <<admin_msgs, cards, next_msg>>
    /\ UNCHANGED <<anchor_vars, pol, calls, user_msg, safe, draft_vars, gate_vars>>

\* cb_accept with a try around the UPDATE that takes its failure for "no row"
AcceptStoreDownSwallowed(p, me, t, clicked) ==
    /\ Free(p)
    /\ is_admin(me)
    /\ clicked \in Clickable(me, t)
    /\ procs' = [procs EXCEPT ![p] =
          [IdleProc EXCEPT !.kind = "accept", !.me = me, !.task = t, !.clicked = clicked,
                           !.pre = Row(t), !.store = "down", !.pc = "del_clicked"]]
    /\ UNCHANGED <<tasks, admin_msgs, cards, next_msg, wins>>
    /\ UNCHANGED <<anchor_vars, pol, calls, user_msg, safe, draft_vars, gate_vars>>

\* cb_accept, res = await session.execute(q) with the store unavailable: the
\* exception leaves cb_accept at line 502, nothing of the handler after it runs,
\* and the dispatcher's error handlers get it
AcceptStoreDown(p, me, t, clicked) ==
    /\ Free(p)
    /\ is_admin(me)
    /\ clicked \in Clickable(me, t)
    /\ procs' = [procs EXCEPT ![p] =
          [IdleProc EXCEPT !.kind = "accept", !.me = me, !.task = t, !.clicked = clicked,
                           !.pre = Row(t), !.store = "down", !.pc = "raised"]]
    /\ UNCHANGED <<tasks, admin_msgs, cards, next_msg, wins>>
    /\ UNCHANGED <<anchor_vars, pol, calls, user_msg, safe, draft_vars, gate_vars>>

\* register_error_handlers, _fallback_handler: the exception is logged, the
\* callback answered "an error occurred", and the update is over
ErrorHandled(p) ==
    /\ procs[p].pc = "raised"
    /\ procs' = [procs EXCEPT ![p] = IdleProc]
    /\ UNCHANGED <<tasks, admin_msgs, cards, next_msg, wins>>
    /\ UNCHANGED <<anchor_vars, pol, calls, user_msg, safe, draft_vars, gate_vars>>

\* _remove_task_card_if_any (admin.py) / _delete_admin_cards_if_any
\* (assignment.py) for the first target: the awaited deletes of the snapshot, each
\* accepted or refused by the gateway, then forget_admin; then the snapshot of
\* the next target with records
RemoveCards(p) ==
    /\ procs[p].pc = "rm"
    /\ LET r == procs[p]
           a == Head(r.targets)
           mine == {c \in cards : CardKey(c) \in Range(r.infos)}
           msgs == forget_admin(admin_msgs, r.task, a)
       IN /\ \E gone \in SUBSET mine : cards' = cards \ gone
          /\ admin_msgs' = msgs
          /\ procs' = [procs EXCEPT ![p] =
                ToRemove([r EXCEPT !.msg_ops = TRUE, !.ledger_ops = TRUE],
                         msgs, Tail(r.targets), AfterRemove(r.kind))]
    /\ UNCHANGED <<tasks, next_msg, wins>>
    /\ UNCHANGED <<anchor_vars, pol, calls, user_msg, safe, draft_vars, gate_vars>>

\* cb_accept: await cb.message.delete() on either path (on the losing path a
\* refused delete is followed by edit_reply_markup(None)); the gateway accepts or
\* refuses.  A click on the task list has the list's screen as cb.message.
AcceptDelClicked(p) ==
    /\ procs[p].pc = "del_clicked" /\ procs[p].kind = "accept"
    /\ LET r == procs[p]
           mine == {c \in cards : c.chat = r.me /\ c.id = r.clicked}
       IN /\ \/ cards' = cards \ mine
             \/ /\ r.outcome # "won"
                /\ cards' = (cards \ mine) \cup {[c EXCEPT !.kb = "none"] : c \in mine}
             \/ cards' = cards
          /\ procs' = [procs EXCEPT ![p].msg_ops = TRUE,
                                    ![p].pc = IF r.outcome = "won" THEN "show" ELSE "reread"]
    /\ UNCHANGED <<tasks, admin_msgs, next_msg, wins>>
    /\ UNCHANGED <<anchor_vars, pol, calls, user_msg, safe, draft_vars, gate_vars>>

\* cb_accept, losing path: select(Task), then the notice: "already taken by
\* <name>" with the assignee's name, or "could not take" without a name
AcceptReread(p) ==
    /\ procs[p].pc = "reread" /\ procs[p].kind = "accept"
    /\ LET r == procs[p]
           named == TaskExists(r.task) /\ tasks[r.task].assignee # None
       IN procs' = [procs EXCEPT ![p].pc = "show",
                                 ![p].outcome = IF named THEN "taken" ELSE "failed",
                                 ![p].told = IF named THEN _admin_name(tasks[r.task].assignee)
                                             ELSE ""]
    /\ UNCHANGED <<tasks, admin_msgs, cards, next_msg, wins>>
    /\ UNCHANGED <<anchor_vars, pol, calls, user_msg, safe, draft_vars, gate_vars>>

\* cb_accept, _show_my_tasks in two steps, for the tickets the list offers: the
\* select of _render_my_tasks and the keyboard built from its rows; the gateway
\* call of _show_anchor comes next
AcceptList(p) ==
    /\ procs[p].pc = "show" /\ procs[p].kind = "accept"
    /\ procs' = [procs EXCEPT ![p].pc = "render",
                              ![p].offer = _my_tasks_kb(tasks,
                                               _render_my_tasks(tasks, procs[p].me))]
    /\ UNCHANGED <<tasks, admin_msgs, cards, next_msg, wins>>
    /\ UNCHANGED <<anchor_vars, pol, calls, user_msg, safe, draft_vars, gate_vars>>

\* cb_accept, _show_my_tasks: the _show_anchor of the keyboard AcceptList has
\* built; whether the render returns or raises, the handler is over
AcceptRender(p) ==
    /\ procs[p].pc = "render" /\ procs[p].kind = "accept"
    /\ procs' = [procs EXCEPT ![p] = IdleProc]
    /\ UNCHANGED <<tasks, admin_msgs, cards, next_msg, wins>>
    /\ UNCHANGED <<anchor_vars, pol, calls, user_msg, safe, draft_vars, gate_vars>>

\* cb_accept whose session gives up the claimed row when the handler ends
AcceptShowRollback(p) ==
    /\ procs[p].pc = "show" /\ procs[p].kind = "accept"
    /\ procs' = [procs EXCEPT ![p] = IdleProc]
    /\ tasks' = IF procs[p].outcome = "won"
                THEN [tasks EXCEPT ![procs[p].task].status = procs[p].pre.status,
                                   ![procs[p].task].assignee = procs[p].pre.assignee]
                ELSE tasks
    /\ UNCHANGED <<admin_msgs, cards, next_msg, wins>>
    /\ UNCHANGED <<anchor_vars, pol, calls, user_msg, safe, draft_vars, gate_vars>>

\* cb_accept: await _show_my_tasks(...) ends both paths (on the winning path
\* cb.answer follows); whether the render returns or raises, the handler is over.
\* The list it reads changes no ticket, no card and no record: one step.
AcceptShow(p) ==
    /\ procs[p].pc = "show" /\ procs[p].kind = "accept"
    /\ procs' = [procs EXCEPT ![p] = IdleProc]
    /\ UNCHANGED <<tasks, admin_msgs, cards, next_msg, wins>>
    /\ UNCHANGED <<anchor_vars, pol, calls, user_msg, safe, draft_vars, gate_vars>>

\* admin_hide_task_card that removes the cards of both admins, as
\* cleanup_admin_cards does
admin_hide_task_card_all(p, admin_tg_id, t) ==
    /\ Free(p)
    /\ procs' = [procs EXCEPT ![p] =
          ToRemove([IdleProc EXCEPT !.kind = "hide", !.me = admin_tg_id, !.task = t],
                   admin_msgs, CleanupTargets, "idle")]
    /\ UNCHANGED <<tasks, admin_msgs, cards, next_msg, wins>>
    /\ UNCHANGED <<anchor_vars, pol, calls, user_msg, safe, draft_vars, gate_vars>>

\* admin_hide_task_card(bot, task_id, admin_tg_id) up to the first await:
\* _delete_admin_cards_if_any reads the records of the pair and returns at once
\* when there are none; RemoveCards does the deletes and the forget_admin
admin_hide_task_card(p, admin_tg_id, t) ==
    /\ Free(p)
    /\ procs' = [procs EXCEPT ![p] =
          ToRemove([IdleProc EXCEPT !.kind = "hide", !.me = admin_tg_id, !.task = t],
                   admin_msgs, <<admin_tg_id>>, "idle")]
    /\ UNCHANGED <<tasks, admin_msgs, cards, next_msg, wins>>
    /\ UNCHANGED <<anchor_vars, pol, calls, user_msg, safe, draft_vars, gate_vars>>

(***************************************************************************)
(* Closing and rating                                                      *)
(***************************************************************************)
\* cb_done up to the commit: the row of the button's task is found (rows are
\* never deleted), assignee and status are overwritten whatever they were, then
\* cleanup_admin_cards starts
DoneCommit(p, me, t) ==
    /\ Free(p)
    /\ is_admin(me)
    /\ TaskExists(t)
    /\ LET rec == [IdleProc EXCEPT !.kind = "done", !.me = me, !.task = t]
       IN /\ tasks' = DoneValues(t, me)
          /\ procs' = [procs EXCEPT ![p] =
                ToRemove(rec, admin_msgs, CleanupTargets, AfterRemove("done"))]
    /\ UNCHANGED <<admin_msgs, cards, next_msg, wins>>
    /\ UNCHANGED <<anchor_vars, pol, calls, user_msg, safe, draft_vars, gate_vars>>

\* cb_rate: a score outside 1..10 or an unknown task is refused; otherwise
\* task.final_complexity = score, commit
cb_rate(me, t, score) ==
    /\ score >= 1 /\ score <= 10
    /\ TaskExists(t)
    /\ tasks' = [tasks EXCEPT ![t].final_complexity = score]
    /\ UNCHANGED <<admin_msgs, cards, next_msg, procs, wins>>
    /\ UNCHANGED <<anchor_vars, pol, calls, user_msg, safe, draft_vars, gate_vars>>

(***************************************************************************)
(* Gateway calls with retry: telegram_safe.py.  safe_bulk_delete deletes   *)
(* the messages of a list one by one through safe_delete_message, which is *)
(* call_with_retry around bot.delete_message.                              *)
(***************************************************************************)
\* what the awaited gateway call does: it returns ("ok") or raises
\* TelegramRetryAfter, TelegramForbiddenError, a TelegramBadRequest whose text is
\* in the `noisy` tuple ("noisy") or is not ("bad_request"),
\* TelegramNetworkError, or any other Exception ("error")
GatewayOutcomes ==
    {"ok", "retry_after", "forbidden", "noisy", "bad_request", "network", "error"}

\* the try statement with a noisy bad request handled as any other bad request
except_clause_noisy_again(o) ==
    IF o = "ok" THEN "return"
    ELSE IF o = "forbidden" THEN "none"
    ELSE "again"

\* call_with_retry, the try statement: the call's result is returned; the
\* handlers of TelegramForbiddenError and of a noisy TelegramBadRequest return
\* None; every other handler falls through to "attempt += 1"
except_clause(o) ==
    IF o = "ok" THEN "return"
    ELSE IF o \in {"forbidden", "noisy"} THEN "none"
    ELSE "again"

\* the give-up test passing one attempt late
giving_up_late(attempt, max_attempts) == attempt > max_attempts + 1

\* call_with_retry: "if attempt > max_attempts: return None"
giving_up(attempt, max_attempts) == attempt > max_attempts

\* safe_bulk_delete: ids = list(message_ids); ids.sort(reverse=True)
RECURSIVE sort_reverse(_)
sort_reverse(ids) ==
    IF ids = <<>> THEN <<>>
    ELSE LET i == CHOOSE i \in DOMAIN ids : \A j \in DOMAIN ids : ids[j] <= ids[i]
             rest == [k \in 1..(Len(ids) - 1) |-> IF k < i THEN ids[k] ELSE ids[k + 1]]
         IN  <<ids[i]>> \o sort_reverse(rest)

\* the message_ids lists the callers pass: up to MaxBulk ids, repeats included
BulkLists == UNION {[1..n -> MsgIds] : n \in 0..MaxBulk}

\* no safe_bulk_delete in flight.  In flight: given is the list passed, ids the
\* sorted ids still to delete (the head is the one in call_with_retry), attempt
\* the local of call_with_retry, invoked the calls of coro_factory it has made,
\* done the calls of call_with_retry that have returned: for which id, how (the
\* call's result "ok", None for a "swallowed" error or None for attempts
\* "exhausted") and after how many calls of coro_factory
IdleSafe ==
    [pc |-> "idle", given |-> <<>>, ids |-> <<>>, max_attempts |-> 0,
     attempt |-> 0, invoked |-> 0, done |-> <<>>]

\* safe_bulk_delete(bot, chat_id, message_ids): nothing for an empty list,
\* otherwise the sorted ids and the first call_with_retry, attempt = 1.  The
\* wrappers pass no max_attempts, so the default 5 applies; every value from 1
\* to MaxAttempts is tried here.  Two calls share no state: one call is followed
\* from its start to its end.
safe_bulk_delete(message_ids, max_attempts) ==
    /\ safe = IdleSafe
    /\ safe' = IF message_ids = <<>> THEN IdleSafe
               ELSE [IdleSafe EXCEPT !.pc = "call", !.given = message_ids,
                                     !.ids = sort_reverse(message_ids),
                                     !.max_attempts = max_attempts, !.attempt = 1]
    /\ UNCHANGED <<ticket_vars, anchor_vars, pol, calls, user_msg, draft_vars, gate_vars>>

\* call_with_retry has returned for the head of ids after n calls of
\* coro_factory; safe_bulk_delete goes on with the next id, or is over
SafeReturned(how, n) ==
    [safe EXCEPT !.done = Append(@, [mid |-> Head(safe.ids), how |-> how, invoked |-> n]),
                 !.ids = Tail(@),
                 !.pc = IF Tail(safe.ids) = <<>> THEN "idle" ELSE "call",
                 !.attempt = 1, !.invoked = 0]

\* call_with_retry, one turn of "while True": await coro_factory() with the
\* gateway's outcome o, the except clause, attempt += 1 and the give-up test
call_with_retry(o) ==
    /\ safe.pc = "call"
    /\ LET h == except_clause(o)
           n == safe.invoked + 1
       IN  safe' =
             IF h = "return" THEN SafeReturned("ok", n)
             ELSE IF h = "none" THEN SafeReturned("swallowed", n)
             ELSE IF giving_up(safe.attempt + 1, safe.max_attempts)
                  THEN SafeReturned("exhausted", n)
             ELSE [safe EXCEPT !.pc = "sleep", !.invoked = n, !.attempt = @ + 1]
    /\ UNCHANGED <<ticket_vars, anchor_vars, pol, calls, user_msg, draft_vars, gate_vars>>

\* call_with_retry: await _backoff_sleep(attempt), then the next turn
_backoff_sleep ==
    /\ safe.pc = "sleep"
    /\ safe' = [safe EXCEPT !.pc = "call"]
    /\ UNCHANGED <<ticket_vars, anchor_vars, pol, calls, user_msg, draft_vars, gate_vars>>

NextSafe ==
    \/ \E message_ids \in BulkLists, n \in 1..MaxAttempts : safe_bulk_delete(message_ids, n)
    \/ \E o \in GatewayOutcomes : call_with_retry(o)
    \/ _backoff_sleep

(***************************************************************************)
(* Drafts: user.py keeps one DraftData per user in DRAFTS.  `made` notes,  *)
(* for each draft cb_pick_category has made, the tickets created from it.  *)
(***************************************************************************)
\* the submitting users
Users == {AUTHOR_ID}

\* the categories picked: one of Artur's own, one shared by the admins
DraftCategories == {"Komputer", "Internet"}

\* AntiSpamMiddleware: kind = "cmd" if text.startswith("/") else "msg"
Kinds == {"cmd", "msg"}

\* cb_pick_category: DRAFTS[uid] = DraftData(category=category, ...)
cb_pick_category(u, category) ==
    /\ Len(made) < MaxDrafts
    /\ DRAFTS' = [DRAFTS EXCEPT ![u] = [present |-> TRUE, category |-> category,
                                        voices |-> 0, serial |-> Len(made) + 1]]
    /\ made' = Append(made, {})
    /\ UNCHANGED <<ticket_vars, anchor_vars, pol, calls, user_msg, safe, notices, dels, gate_vars>>

\* collecting: draft = DRAFTS.setdefault(uid, DraftData()), then the voice
\* attachment of the message, if it has one, is appended
collecting(u, voice) ==
    /\ LET draft == IF DRAFTS[u].present THEN DRAFTS[u]
                    ELSE [NoDraft EXCEPT !.present = TRUE]
       IN /\ voice => draft.voices < MaxVoices
          /\ DRAFTS' = [DRAFTS EXCEPT ![u] =
                [draft EXCEPT !.voices = IF voice THEN @ + 1 ELSE @]]
    /\ UNCHANGED <<ticket_vars, anchor_vars, pol, calls, user_msg, safe, made, notices, dels, gate_vars>>

\* cb_cancel_collect: DRAFTS.pop(uid, None)
cb_cancel_collect(u) ==
    /\ DRAFTS[u].present
    /\ DRAFTS' = [DRAFTS EXCEPT ![u] = NoDraft]
    /\ UNCHANGED <<ticket_vars, anchor_vars, pol, calls, user_msg, safe, made, notices, dels, gate_vars>>

\* _finalize_ticket that reads the draft and leaves it in DRAFTS
_finalize_ticket_get(p, u) ==
    /\ Free(p)
    /\ LET draft == DRAFTS[u]
       IN procs' = [procs EXCEPT ![p] =
             IF ~draft.present \/ draft.category = ""
             THEN [IdleProc EXCEPT !.kind = "finalize", !.pc = "no_data"]
             ELSE [IdleProc EXCEPT !.kind = "finalize", !.pc = "popped", !.draft = draft]]
    /\ UNCHANGED <<tasks, admin_msgs, cards, next_msg, wins>>
    /\ UNCHANGED <<anchor_vars, pol, calls, user_msg, safe, draft_vars, gate_vars>>

\* _finalize_ticket of a done_collect callback or a /done message, up to its
\* first await: draft = DRAFTS.pop(uid, None); without a draft or without a
\* category the answer "no data" is all that follows
_finalize_ticket(p, u) ==
    /\ Free(p)
    /\ LET draft == DRAFTS[u]
       IN procs' = [procs EXCEPT ![p] =
             IF ~draft.present \/ draft.category = ""
             THEN [IdleProc EXCEPT !.kind = "finalize", !.pc = "no_data"]
             ELSE [IdleProc EXCEPT !.kind = "finalize", !.pc = "popped", !.draft = draft]]
    /\ DRAFTS' = [DRAFTS EXCEPT ![u] = NoDraft]
    /\ UNCHANGED <<tasks, admin_msgs, cards, next_msg, wins>>
    /\ UNCHANGED <<anchor_vars, pol, calls, user_msg, safe, made, notices, dels, gate_vars>>

\* _finalize_ticket, "no data": source.answer(...), return
FinalizeNoData(p) ==
    /\ procs[p].pc = "no_data" /\ procs[p].kind = "finalize"
    /\ procs' = [procs EXCEPT ![p] = IdleProc]
    /\ UNCHANGED <<tasks, admin_msgs, cards, next_msg, wins>>
    /\ UNCHANGED <<anchor_vars, pol, calls, user_msg, safe, draft_vars, gate_vars>>

\* _finalize_ticket with its draft: Task(status=NEW), assign_by_category, commit,
\* the confirmation for the user; the notifications follow as in FinalizeNotify
FinalizeCommit(p) ==
    /\ procs[p].pc = "popped" /\ procs[p].kind = "finalize"
    /\ Len(tasks) < Cardinality(TaskIds)
    /\ LET draft == procs[p].draft
           r == assign_by_category(ARTUR_ID, ANDREY_K_ID, draft.category,
                                   count_open_tasks(ARTUR_ID), count_open_tasks(ANDREY_K_ID))
       IN /\ tasks' = Append(tasks, NewTask(r.assignee))
          /\ made' = [made EXCEPT ![draft.serial] = @ \cup {Len(tasks) + 1}]
          /\ procs' = [procs EXCEPT ![p] =
                IF r.notify = <<>> THEN IdleProc
                ELSE [IdleProc EXCEPT !.kind = "finalize", !.task = Len(tasks) + 1,
                                      !.notify = r.notify, !.pc = "notify",
                                      !.confirmed = TRUE, !.voices = draft.voices]]
    /\ UNCHANGED <<admin_msgs, cards, next_msg, wins>>
    /\ UNCHANGED <<anchor_vars, pol, calls, user_msg, safe, DRAFTS, notices, dels, gate_vars>>

(***************************************************************************)
(* cb_accept behind its guard: the callback of anybody, staff or not       *)
(***************************************************************************)
\* cb_accept: "if not is_admin(cb.from_user.id): await cb.answer(no rights);
\* return", otherwise the claim
cb_accept(p, me, t, clicked) ==
    IF ~is_admin(me)
    THEN /\ Free(p)
         /\ procs' = [procs EXCEPT ![p] =
               [IdleProc EXCEPT !.kind = "accept", !.me = me, !.task = t, !.pc = "denied"]]
         /\ UNCHANGED <<tasks, admin_msgs, cards, next_msg, wins>>
         /\ UNCHANGED <<anchor_vars, pol, calls, user_msg, safe, draft_vars, gate_vars>>
    ELSE AcceptUpdate(p, me, t, clicked)

\* cb_accept without rights: the alert is answered, the handler returns
AcceptDenied(p) ==
    /\ procs[p].pc = "denied" /\ procs[p].kind = "accept"
    /\ procs' = [procs EXCEPT ![p] = IdleProc]
    /\ UNCHANGED <<tasks, admin_msgs, cards, next_msg, wins>>
    /\ UNCHANGED <<anchor_vars, pol, calls, user_msg, safe, draft_vars, gate_vars>>

(***************************************************************************)
(* Closure notices: cb_done past its cleanup sends the "done" notice to    *)
(* the submitting user, remembers it in the ticket's one slot and starts   *)
(* _auto_del_user_notice; cb_report_finish and cb_rate call                *)
(* _delete_user_notice_if_any too.  notices are the notices sent, tried    *)
(* once a delete has been attempted; dels are the deletions under way, n   *)
(* the notice whose timer it is (0 for a call from a handler).             *)
(***************************************************************************)
\* cb_done as a whole: the commit as in DoneCommit, cleanup_admin_cards, then the
\* notice
cb_done(p, me, t) ==
    /\ Free(p)
    /\ is_admin(me)
    /\ TaskExists(t)
    /\ LET rec == [IdleProc EXCEPT !.kind = "close", !.me = me, !.task = t]
       IN /\ tasks' = DoneValues(t, me)
          /\ procs' = [procs EXCEPT ![p] =
                ToRemove(rec, admin_msgs, CleanupTargets, AfterRemove("close"))]
    /\ UNCHANGED <<admin_msgs, cards, next_msg, wins>>
    /\ UNCHANGED <<anchor_vars, pol, calls, user_msg, safe, draft_vars, gate_vars>>

\* cb_done: m = await bot.send_message(author, "done"); remember_user(task.id,
\* author, m.message_id); create_task(_auto_del_user_notice(...)); an exception
\* of the send is swallowed.  The report prompt ends the handler.
DoneNotice(p) ==
    /\ procs[p].pc = "notice" /\ procs[p].kind = "close"
    /\ LET t == procs[p].task
           m == Cardinality(notices) + 1
       IN \/ /\ m <= MaxNotices
             /\ notices' = notices \cup {[id |-> m, task |-> t, tried |-> FALSE]}
             /\ user_msg' = remember_user(user_msg, t, AUTHOR_ID, m)
             /\ dels' = dels \cup {[n |-> m, task |-> t, pc |-> "sleep", info |-> <<>>]}
          \/ UNCHANGED <<notices, user_msg, dels>>
    /\ procs' = [procs EXCEPT ![p] = IdleProc]
    /\ UNCHANGED <<tasks, admin_msgs, cards, next_msg, wins>>
    /\ UNCHANGED <<anchor_vars, pol, calls, safe, DRAFTS, made, gate_vars>>

\* _delete_user_notice_if_any(bot, task_id) called by cb_report_finish or
\* cb_rate: info = get_user_msg(task_id); without an entry it returns
_delete_user_notice_if_any(t) ==
    /\ user_msg[t] # <<>>
    /\ dels' = dels \cup {[n |-> 0, task |-> t, pc |-> "delete", info |-> user_msg[t]]}
    /\ UNCHANGED <<ticket_vars, anchor_vars, pol, calls, user_msg, safe, DRAFTS, made, notices, gate_vars>>

\* _auto_del_user_notice: the sleep is over, _delete_user_notice_if_any reads the
\* slot of the ticket
AutoDelWake(d) ==
    /\ d \in dels /\ d.pc = "sleep"
    /\ dels' = IF user_msg[d.task] = <<>> THEN dels \ {d}
               ELSE (dels \ {d}) \cup {[d EXCEPT !.pc = "delete", !.info = user_msg[d.task]]}
    /\ UNCHANGED <<ticket_vars, anchor_vars, pol, calls, user_msg, safe, DRAFTS, made, notices, gate_vars>>

\* _delete_user_notice_if_any: await bot.delete_message(chat_id, message_id)
\* returns or raises, then forget_user(task_id)
DeleteNotice(d) ==
    /\ d \in dels /\ d.pc = "delete"
    /\ notices' = {IF x.id = d.info[2] THEN [x EXCEPT !.tried = TRUE] ELSE x : x \in notices}
    /\ user_msg' = forget_user(user_msg, d.task)
    /\ dels' = dels \ {d}
    /\ UNCHANGED <<ticket_vars, anchor_vars, pol, calls, safe, DRAFTS, made, gate_vars>>

(***************************************************************************)
(* The middlewares in front of the handlers of a message: antispam.py and  *)
(* auth.py.  Time is counted in ticks; the limits are scaled to ticks.     *)
(* passed is the log of what AntiSpamMiddleware has let through within the *)
(* last window; streak is the number of wrong passphrases auth_check has   *)
(* met since the last correct one or the last ban; handled is what became  *)
(* of the last update: dropped, banned, login (asked to log in), wrong or  *)
(* right (auth_check has judged the passphrase), ran (another handler).    *)
(***************************************************************************)
\* Limits(): msg_max/msg_window/msg_cooldown and cmd_max/cmd_window/cmd_cooldown
Limits ==
    [msg |-> [max_n |-> 2, window |-> 2, cooldown |-> 1],
     cmd |-> [max_n |-> 2, window |-> 3, cooldown |-> 1]]

\* settings.AUTH_MAX_FAILS, and AUTH_BAN_MINUTES in ticks
AUTH_MAX_FAILS == 2
AUTH_BAN_TICKS == 2

\* the texts a user sends: the start command, the passphrase, anything else
Texts == {"/start", "right", "wrong"}

\* the drop-while of push_and_check: dq.popleft() while dq[0] < cutoff
RECURSIVE popleft_while(_, _)
popleft_while(dq, cutoff) ==
    IF dq # <<>> /\ Head(dq) < cutoff THEN popleft_while(Tail(dq), cutoff) ELSE dq

\* push_and_check with a window one tick shorter
push_and_check_short(dq, now_, max_n, window) ==
    Append(popleft_while(dq, now_ - window + 1), now_)

\* MemoryBucket.push_and_check(key, now, max_n, window): the deque of the key
\* after the call; the call returns its length
push_and_check(dq, now_, max_n, window) ==
    Append(popleft_while(dq, now_ - window), now_)

\* _AuthBrute.status(uid)
_AuthBrute_status(fails, uid) == fails[uid]

\* register_fail that bans after one failure more
register_fail_late(fails, uid, now_) ==
    LET n == _AuthBrute_status(fails, uid)[1] + 1
    IN  IF n > AUTH_MAX_FAILS THEN [fails EXCEPT ![uid] = <<0, now_ + AUTH_BAN_TICKS>>]
        ELSE [fails EXCEPT ![uid] = <<n, 0>>]

\* _AuthBrute.register_fail(uid)
register_fail(fails, uid, now_) ==
    LET n == _AuthBrute_status(fails, uid)[1] + 1
    IN  IF n >= AUTH_MAX_FAILS THEN [fails EXCEPT ![uid] = <<0, now_ + AUTH_BAN_TICKS>>]
        ELSE [fails EXCEPT ![uid] = <<n, 0>>]

\* _AuthBrute.clear(uid)
clear(fails, uid) == [fails EXCEPT ![uid] = <<0, 0>>]

\* AuthMiddleware: "if unlock and time.time() < unlock"
Banned(fails, uid, now_) == _AuthBrute_status(fails, uid)[2] # 0 /\ now_ < _AuthBrute_status(fails, uid)[2]

\* time passes
Tick ==
    /\ now < MaxClock
    /\ now' = now + 1
    /\ UNCHANGED <<ticket_vars, anchor_vars, pol, calls, user_msg, safe, draft_vars>>
    /\ UNCHANGED <<_events, _last_warn, passed, FAILS, state_name, authed, streak, handled>>

\* a message of a user outside the staff on its way to a handler.
\* AntiSpamMiddleware.__call__: the event is pushed, dropped when the window
\* holds more than max_n events or when the last passed event is closer than the
\* cooldown.  AuthMiddleware.__call__: nothing runs during a ban; the steps of
\* AuthState, the commands and the authenticated users pass.  Handlers:
\* cmd_start opens AuthState for a user who is not authenticated, auth_check
\* registers the failure of a wrong passphrase and clears the failures on the
\* right one.
message(u, text) ==
    LET kind == IF text = "/start" THEN "cmd" ELSE "msg"
        lim == Limits[kind]
        dq == push_and_check(_events[kind], now, lim.max_n, lim.window)
        n == Len(dq)
        cool == n > 1 /\ now - _last_warn[kind] < lim.cooldown
        through == n <= lim.max_n /\ ~cool
        banned == Banned(FAILS, u, now)
        in_auth == state_name[u] = "AuthState"
        allowed == in_auth \/ kind = "cmd" \/ authed[u]
        runs == through /\ ~banned /\ allowed
        checks == runs /\ kind = "msg" /\ in_auth
    IN  /\ Len(_events[kind]) < MaxBurst
        /\ _events' = [_events EXCEPT ![kind] = dq]
        /\ _last_warn' = IF through /\ n > 1 THEN [_last_warn EXCEPT ![kind] = now]
                         ELSE _last_warn
        /\ passed' = [passed EXCEPT ![kind] =
              LET kept == popleft_while(@, now - lim.window)
              IN  IF through THEN Append(kept, now) ELSE kept]
        /\ handled' = IF ~through THEN "dropped"
                      ELSE IF banned THEN "banned"
                      ELSE IF ~allowed THEN "login"
                      ELSE IF checks THEN text
                      ELSE "ran"
        /\ FAILS' = IF checks /\ text = "wrong" THEN register_fail(FAILS, u, now)
                    ELSE IF checks /\ text = "right" THEN clear(FAILS, u)
                    ELSE FAILS
        /\ streak' = IF checks /\ text = "wrong"
                     THEN (IF streak + 1 >= AUTH_MAX_FAILS THEN 0 ELSE streak + 1)
                     ELSE IF checks /\ text = "right" THEN 0
                     ELSE streak
        /\ authed' = IF checks /\ text = "right" THEN [authed EXCEPT ![u] = TRUE] ELSE authed
        /\ state_name' =
              IF checks /\ text = "right" THEN [state_name EXCEPT ![u] = ""]
              ELSE IF runs /\ kind = "cmd" /\ ~authed[u]
                   THEN [state_name EXCEPT ![u] = "AuthState"]
              ELSE state_name
        /\ UNCHANGED now
        /\ UNCHANGED <<ticket_vars, anchor_vars, pol, calls, user_msg, safe, draft_vars>>

(***************************************************************************)
(* Specifications                                                          *)
(***************************************************************************)
InitTickets ==
    /\ tasks = <<>>
    /\ admin_msgs = [t \in TaskIds |-> [s \in staff_ids |-> <<>>]]
    /\ cards = {}
    /\ next_msg = 1
    /\ procs = [p \in Procs |-> IdleProc]
    /\ wins = [t \in TaskIds |-> <<>>]

InitAnchors ==
    /\ ADMIN_ANCHOR = [c \in staff_ids |-> None]
    /\ BOSS_ANCHOR = [c \in staff_ids |-> None]
    /\ screen_msgs = {}
    /\ next_screen = 1
    /\ rend = [p \in Renders |-> IdleRender]
    /\ refused = {}

\* no policy call made: no inputs, no results
IdlePol ==
    [artur |-> None, andrey |-> None, category |-> "", a_open |-> 0, k_open |-> 0,
     called_assign |-> FALSE, called_dispatch |-> FALSE,
     assigned |-> [notify |-> <<>>, assignee |-> None],
     dispatched |-> [sent_to |-> <<FALSE, FALSE>>, assigned_immediately_to |-> None,
                     task |-> [status |-> Status_NEW, assignee |-> None]]]

\* no draft, no closure notice, no deletion of one under way
InitDrafts ==
    /\ DRAFTS = [u \in Users |-> NoDraft]
    /\ made = <<>>
    /\ notices = {}
    /\ dels = {}

\* the clock has started; nothing sent, nothing failed
InitGate ==
    /\ now = 1
    /\ _events = [k \in Kinds |-> <<>>]
    /\ _last_warn = [k \in Kinds |-> 0]
    /\ passed = [k \in Kinds |-> <<>>]
    /\ FAILS = [u \in Users |-> <<0, 0>>]
    /\ state_name = [u \in Users |-> ""]
    /\ authed = [u \in Users |-> FALSE]
    /\ streak = 0
    /\ handled = ""

Init == InitTickets /\ InitAnchors /\ pol = IdlePol /\ calls = <<>> /\ user_msg = [t \in TaskIds |-> <<>>] /\ safe = IdleSafe /\ InitDrafts /\ InitGate

\* the ticket flows, their handlers interleaving at the awaits
Next ==
    \/ \E p \in Procs, category \in USER_CATEGORIES : FinalizeCreate(p, category)
    \/ \E p \in Procs : FinalizeNotify(p)
    \/ \E me \in staff_ids, who \in {"me", "colleague"} : add_pick_assignee(me, who)
    \/ \E p \in Procs, admin \in Admins : BossCreate(p, admin)
    \/ \E p \in Procs : BossNotify(p)
    \/ \E p \in Procs, me \in staff_ids, t \in 1..Len(tasks), clicked \in {None} \cup MsgIds :
          AcceptUpdate(p, me, t, clicked)
    \/ \E p \in Procs : RemoveCards(p)
    \/ \E p \in Procs : AcceptDelClicked(p)
    \/ \E p \in Procs : AcceptReread(p)
    \/ \E p \in Procs : AcceptShow(p)
    \/ \E p \in Procs, me \in staff_ids, t \in TaskIds : DoneCommit(p, me, t)
    \/ \E me \in staff_ids, t \in TaskIds, score \in RateInputs : cb_rate(me, t, score)

Spec == Init /\ [][Next]_vars

(***************************************************************************)
(* Submitting from drafts: the user picks categories, adds voices, cancels *)
(* and sends 'done' events, two of which can be in flight at once.         *)
(***************************************************************************)
NextDraft ==
    \/ \E u \in Users, category \in DraftCategories : cb_pick_category(u, category)
    \/ \E u \in Users, voice \in BOOLEAN : collecting(u, voice)
    \/ \E u \in Users : cb_cancel_collect(u)
    \/ \E p \in Procs, u \in Users : _finalize_ticket(p, u)
    \/ \E p \in Procs : FinalizeNoData(p)
    \/ \E p \in Procs : FinalizeCommit(p)
    \/ \E p \in Procs : FinalizeNotify(p)
    \/ \E p \in Procs : FinalizeVoice(p)

SpecDraft == Init /\ [][NextDraft]_vars

(***************************************************************************)
(* Tickets of the boss wizard: the boss creates tickets for an admin, and  *)
(* anybody, the submitting user included, sends accept callbacks from a    *)
(* card or with the data of a task-list button; the staff close tickets.   *)
(***************************************************************************)
NextBoss ==
    \/ \E p \in Procs, admin \in Admins : BossCreate(p, admin)
    \/ \E p \in Procs : BossNotify(p)
    \/ \E p \in Procs, me \in staff_ids \cup Users, t \in TaskIds, clicked \in {None} \cup MsgIds :
          cb_accept(p, me, t, clicked)
    \/ \E p \in Procs : AcceptDenied(p)
    \/ \E p \in Procs : RemoveCards(p)
    \/ \E p \in Procs : AcceptDelClicked(p)
    \/ \E p \in Procs : AcceptReread(p)
    \/ \E p \in Procs : AcceptShow(p)
    \/ \E p \in Procs, me \in staff_ids, t \in TaskIds : DoneCommit(p, me, t)

SpecBoss == Init /\ [][NextBoss]_vars

(***************************************************************************)
(* Closing with the notice for the user: a ticket is submitted, the admins *)
(* press its done button any number of times, and press the report's       *)
(* finish button or a rating.  A handler that has started goes on to its   *)
(* end and a timer that has been started fires: weak fairness of the steps *)
(* that follow an await.                                                   *)
(***************************************************************************)
NextNotice ==
    \/ \E p \in Procs : FinalizeCreate(p, "Komputer")
    \/ \E p \in Procs : FinalizeNotify(p)
    \/ \E p \in Procs, me \in Admins, t \in TaskIds : cb_done(p, me, t)
    \/ \E p \in Procs : RemoveCards(p)
    \/ \E p \in Procs : DoneNotice(p)
    \/ \E t \in TaskIds : _delete_user_notice_if_any(t)
    \/ \E d \in dels : AutoDelWake(d)
    \/ \E d \in dels : DeleteNotice(d)

NextGate ==
    \/ Tick
    \/ \E u \in Users, text \in Texts : message(u, text)

SpecGate == Init /\ [][NextGate]_vars

SpecNotice ==
    /\ Init /\ [][NextNotice]_vars
    /\ WF_vars(\E p \in Procs : FinalizeNotify(p))
    /\ WF_vars(\E p \in Procs : RemoveCards(p))
    /\ WF_vars(\E p \in Procs : DoneNotice(p))
    /\ WF_vars(\E d \in dels : AutoDelWake(d))
    /\ WF_vars(\E d \in dels : DeleteNotice(d))

(***************************************************************************)
(* Claims from the task list: MaxListed tickets the boss has created and   *)
(* whose cards the gateway refused are in the table, NEW and unassigned,   *)
(* and the staff press the accept buttons of their task lists, stale ones  *)
(* and one of an id that no row has included.                              *)
(***************************************************************************)
\* the ticket ids an accept callback carries here
ListedIds == 1..(MaxListed + 1)

InitList ==
    /\ tasks = [t \in 1..MaxListed |-> NewTask(None)]
    /\ admin_msgs = [t \in TaskIds |-> [s \in staff_ids |-> <<>>]]
    /\ cards = {}
    /\ next_msg = 1
    /\ procs = [p \in Procs |-> IdleProc]
    /\ wins = [t \in TaskIds |-> <<>>]
    /\ InitAnchors /\ pol = IdlePol /\ calls = <<>> /\ user_msg = [t \in TaskIds |-> <<>>] /\ safe = IdleSafe /\ InitDrafts /\ InitGate

NextList ==
    \/ \E p \in Procs, me \in staff_ids, t \in ListedIds : AcceptUpdate(p, me, t, None)
    \/ \E p \in Procs : AcceptDelClicked(p)
    \/ \E p \in Procs : AcceptReread(p)
    \/ \E p \in Procs : AcceptList(p)
    \/ \E p \in Procs : AcceptRender(p)

SpecList == InitList /\ [][NextList]_vars

(***************************************************************************)
(* Submitting, closing and rating without the claim: every score of        *)
(* RateScores on the rating keyboard.                                      *)
(***************************************************************************)
NextClose ==
    \/ \E p \in Procs, category \in USER_CATEGORIES : FinalizeCreate(p, category)
    \/ \E p \in Procs : FinalizeNotify(p)
    \/ \E me \in staff_ids, who \in {"me", "colleague"} : add_pick_assignee(me, who)
    \/ \E p \in Procs, me \in staff_ids, t \in TaskIds : DoneCommit(p, me, t)
    \/ \E p \in Procs : RemoveCards(p)
    \/ \E me \in staff_ids, t \in TaskIds, score \in RateScores : cb_rate(me, t, score)

SpecClose == Init /\ [][NextClose]_vars

(***************************************************************************)
(* Delivery of the cards of a new ticket, by the user flow (_finalize_ticket, *)
(* drafts with voice attachments included) and by the service entry point  *)
(* dispatch_new_task, while the staff claim the ticket and the store may   *)
(* be unavailable for a claim.                                             *)
(***************************************************************************)
NextDeliver ==
    \/ \E p \in Procs, category \in USER_CATEGORIES, voices \in 0..MaxVoices :
          FinalizeDraft(p, category, voices)
    \/ \E p \in Procs : FinalizeNotify(p)
    \/ \E p \in Procs : FinalizeVoice(p)
    \/ \E p \in Procs, category \in USER_CATEGORIES : DispatchSave(p, category)
    \/ \E p \in Procs : DispatchSend(p)
    \/ \E p \in Procs, me \in staff_ids, t \in 1..Len(tasks), clicked \in {None} \cup MsgIds :
          AcceptUpdate(p, me, t, clicked)
    \/ \E p \in Procs : RemoveCards(p)
    \/ \E p \in Procs : AcceptDelClicked(p)
    \/ \E p \in Procs : AcceptReread(p)
    \/ \E p \in Procs : AcceptShow(p)
    \/ \E p \in Procs, me \in staff_ids, t \in 1..Len(tasks), clicked \in {None} \cup MsgIds :
          AcceptStoreDown(p, me, t, clicked)
    \/ \E p \in Procs : ErrorHandled(p)

SpecDeliver == Init /\ [][NextDeliver]_vars

(***************************************************************************)
(* Dismissal of the cards: the service call admin_hide_task_card for any   *)
(* staff member and ticket, while the user flow delivers the cards and the *)
(* voices of new tickets.                                                  *)
(***************************************************************************)
NextHide ==
    \/ \E p \in Procs, category \in USER_CATEGORIES, voices \in 0..MaxVoices :
          FinalizeDraft(p, category, voices)
    \/ \E p \in Procs : FinalizeNotify(p)
    \/ \E p \in Procs : FinalizeVoice(p)
    \/ \E p \in Procs, a \in staff_ids, t \in TaskIds : admin_hide_task_card(p, a, t)
    \/ \E p \in Procs : RemoveCards(p)

SpecHide == Init /\ [][NextHide]_vars

(***************************************************************************)
(* The ledger on its own: any sequence of MaxCalls calls of remember_admin *)
(* and forget_admin, on any pair and with any location; and (SpecLedgerAll) *)
(* of remember_admin, forget_admin_all and remember_user.                  *)
(***************************************************************************)
\* await-free call InMemoryNotifications.remember_admin(t, s, chat, m)
LedgerRemember(t, s, chat, m) ==
    /\ Len(calls) < MaxCalls
    /\ admin_msgs' = remember_admin(admin_msgs, t, s, chat, m)
    /\ calls' = Append(calls, [op |-> "remember", task |-> t, staff |-> s,
                               chat |-> chat, msg |-> m])
    /\ UNCHANGED <<tasks, cards, next_msg, procs, wins>>
    /\ UNCHANGED <<anchor_vars, pol, user_msg, safe, draft_vars, gate_vars>>

\* await-free call InMemoryNotifications.forget_admin(t, s)
LedgerForget(t, s) ==
    /\ Len(calls) < MaxCalls
    /\ admin_msgs' = forget_admin(admin_msgs, t, s)
    /\ calls' = Append(calls, [op |-> "forget", task |-> t, staff |-> s,
                               chat |-> None, msg |-> None])
    /\ UNCHANGED <<tasks, cards, next_msg, procs, wins>>
    /\ UNCHANGED <<anchor_vars, pol, user_msg, safe, draft_vars, gate_vars>>

\* await-free call InMemoryNotifications.forget_admin_all(t)
LedgerForgetAll(t) ==
    /\ Len(calls) < MaxCalls
    /\ admin_msgs' = forget_admin_all(admin_msgs, t)
    /\ calls' = Append(calls, [op |-> "forget_all", task |-> t, staff |-> None,
                               chat |-> None, msg |-> None])
    /\ UNCHANGED <<tasks, cards, next_msg, procs, wins>>
    /\ UNCHANGED <<anchor_vars, pol, user_msg, safe, draft_vars, gate_vars>>

\* await-free call InMemoryNotifications.remember_user(t, chat, m)
LedgerRememberUser(t, chat, m) ==
    /\ Len(calls) < MaxCalls
    /\ user_msg' = remember_user(user_msg, t, chat, m)
    /\ calls' = Append(calls, [op |-> "remember_user", task |-> t, staff |-> None,
                               chat |-> chat, msg |-> m])
    /\ UNCHANGED <<tasks, admin_msgs, cards, next_msg, procs, wins>>
    /\ UNCHANGED <<anchor_vars, pol, safe, draft_vars, gate_vars>>

NextLedger ==
    \/ \E t \in TaskIds, s \in staff_ids, m \in MsgIds : LedgerRemember(t, s, s, m)
    \/ \E t \in TaskIds, s \in staff_ids : LedgerForget(t, s)

NextLedgerAll ==
    \/ \E t \in TaskIds, s \in staff_ids, m \in MsgIds : LedgerRemember(t, s, s, m)
    \/ \E t \in TaskIds : LedgerForgetAll(t)
    \/ \E t \in TaskIds, m \in MsgIds : LedgerRememberUser(t, AUTHOR_ID, m)

SpecLedgerAll == Init /\ [][NextLedgerAll]_vars

SpecLedger == Init /\ [][NextLedger]_vars

\* the gateway calls with retry on their own
SpecSafe == Init /\ [][NextSafe]_vars

(***************************************************************************)
(* The assignment policy on its own: the inputs are the two configured     *)
(* admin ids (0 when ADMIN_1 / ADMIN_2 is not set), the category and the   *)
(* two open-ticket counts.                                                 *)
(***************************************************************************)
PolicyInputs ==
    [artur : {None, ARTUR_ID}, andrey : {None, ANDREY_K_ID}, category : Categories,
     a_open : 0..MaxOpen, k_open : 0..MaxOpen]

\* notify_ids, assignee = await assign_by_category(session, category)
CallAssign ==
    /\ ~pol.called_assign
    /\ pol' = [pol EXCEPT !.called_assign = TRUE,
                          !.assigned = assign_by_category(pol.artur, pol.andrey,
                                           pol.category, pol.a_open, pol.k_open)]
    /\ UNCHANGED <<ticket_vars, anchor_vars, calls, user_msg, safe, draft_vars, gate_vars>>

\* result = await dispatch_new_task(bot, session, task)
CallDispatch ==
    /\ ~pol.called_dispatch
    /\ pol' = [pol EXCEPT !.called_dispatch = TRUE,
                          !.dispatched = dispatch_new_task(pol.artur, pol.andrey,
                                             pol.category, pol.a_open, pol.k_open)]
    /\ UNCHANGED <<ticket_vars, anchor_vars, calls, user_msg, safe, draft_vars, gate_vars>>

InitPolicy ==
    /\ InitTickets /\ InitAnchors /\ calls = <<>> /\ user_msg = [t \in TaskIds |-> <<>>] /\ safe = IdleSafe /\ InitDrafts /\ InitGate
    /\ \E i \in PolicyInputs :
         pol = [IdlePol EXCEPT !.artur = i.artur, !.andrey = i.andrey,
                               !.category = i.category,
                               !.a_open = i.a_open, !.k_open = i.k_open]

NextPolicy == CallAssign \/ CallDispatch

SpecPolicy == InitPolicy /\ [][NextPolicy]_vars

(***************************************************************************)
(* The anchor renderer on its own: renders one after another, and the      *)
(* renders of two updates interleaving at their awaits.                    *)
(***************************************************************************)
RenderStep(p) ==
    \/ \E kind \in {"admin", "boss"}, chat \in staff_ids, scr \in Screens :
          BeginRender(p, kind, chat, scr)
    \/ AdminEdit(p) \/ AdminMarkup(p) \/ AdminDelete(p) \/ AdminSend(p)
    \/ BossEdit(p) \/ BossSend(p) \/ BossDelete(p)

\* one render at a time: a single update is handled to its end before the next
NextAnchorSeq == \E p \in {1} : RenderStep(p)

SpecAnchorSeq == Init /\ [][NextAnchorSeq]_vars

NextAnchor == \E p \in Renders : RenderStep(p)

SpecAnchor == Init /\ [][NextAnchor]_vars

(***************************************************************************)
(* Properties                                                              *)
(***************************************************************************)
\* the accept handlers in flight
Accepting(p) == procs[p].kind = "accept"

\* an accept handler past its notice, with only the final render left
Answered(p) == Accepting(p) /\ procs[p].pc = "show"

\* C1 - Claim exclusivity: the conditional UPDATE matches a row for at most one
\* claimant of a ticket; an attempt whose UPDATE meets the ticket NEW and
\* unassigned wins; a ticket in the assigned status has the winner as its
\* assignee; and an attempt whose UPDATE met the ticket already claimed is told
\* the winner's name, as long as nobody has closed the ticket since.
C1_ClaimExclusive ==
    \A t \in TaskIds :
      /\ Len(wins[t]) <= 1
      /\ wins[t] # <<>> => TaskExists(t) /\ tasks[t].status # Status_NEW
      /\ TaskExists(t) /\ tasks[t].status = STATUS_ASSIGNED_VALUE
            => wins[t] = <<tasks[t].assignee>>
      /\ \A p \in Procs :
           Accepting(p) /\ procs[p].task = t =>
             /\ (procs[p].pre.status = Status_NEW /\ procs[p].pre.assignee = None)
                   <=> procs[p].outcome = "won"
             /\ ( /\ Answered(p)
                  /\ procs[p].pre.status = STATUS_ASSIGNED_VALUE
                  /\ tasks[t].status = STATUS_ASSIGNED_VALUE )
                   => /\ procs[p].outcome = "taken"
                      /\ procs[p].told = _admin_name(Head(wins[t]))

\* two accept handlers of different staff members in flight on one ticket: one has
\* won, the other has been told the winner's name
C1_Witness ==
    \E p, q \in Procs :
      /\ p # q /\ Accepting(p) /\ Accepting(q)
      /\ procs[p].task = procs[q].task /\ procs[p].me # procs[q].me
      /\ procs[p].outcome = "won" /\ procs[p].pc # "show"
      /\ Answered(q) /\ procs[q].outcome = "taken"
      /\ procs[q].told = _admin_name(procs[p].me)
      /\ tasks[procs[p].task].assignee = procs[p].me
      /\ tasks[procs[p].task].status = STATUS_ASSIGNED_VALUE

\* C2 - Ledger purge on resolution: when a winning cb_accept has done its
\* removals, the ledger holds no record of the ticket for any staff member who had
\* one when the claim was committed.
C2_LedgerPurged ==
    \A p \in Procs :
      Answered(p) /\ procs[p].outcome = "won" =>
        \A s \in procs[p].notified :
          get_admin_msgs(admin_msgs, procs[p].task, s) = <<>>

\* C3 - Ticket invariant: a committed ticket has an assignee if and only if its
\* status is not NEW.
C3_AssigneeIffNotNew ==
    \A t \in 1..Len(tasks) :
      (tasks[t].assignee # None) <=> (tasks[t].status # Status_NEW)

\* C4 - Idempotent re-claim: an accept by the staff member who already holds the
\* ticket in the assigned status is answered "already yours", touches no message
\* and no ledger record, and leaves status and assignee as they were.
C4_ReclaimIdempotent ==
    \A p \in Procs :
      ( /\ Answered(p)
        /\ procs[p].pre.status = STATUS_ASSIGNED_VALUE
        /\ procs[p].pre.assignee = procs[p].me )
      => /\ procs[p].outcome = "yours"
         /\ ~procs[p].msg_ops /\ ~procs[p].ledger_ops

\* the order of the statuses: NEW < ASSIGNED / IN_PROGRESS < CLOSED
StatusRank(status) ==
    IF status = Status_NEW THEN 0
    ELSE IF status = Status_CLOSED THEN 2
    ELSE 1

C10_ClosedImmutable ==
    [][ \A t \in 1..Len(tasks) :
          tasks[t].status = Status_CLOSED =>
            /\ tasks'[t].status = Status_CLOSED
            /\ tasks'[t].assignee = tasks[t].assignee ]_vars

\* both admins are configured
Configured == pol.artur = ARTUR_ID /\ pol.andrey = ANDREY_K_ID

\* the pair dispatch_new_task reports as sent_to, as the tuple of notified ids
SentIds(sent_to) ==
    (IF sent_to[1] THEN <<pol.artur>> ELSE <<>>) \o
    (IF sent_to[2] THEN <<pol.andrey>> ELSE <<>>)

\* an exclusive category: only its admin is notified, and is the immediate assignee
ExclusiveRouted(admin) ==
    /\ pol.called_assign =>
         pol.assigned = [notify |-> <<admin>>, assignee |-> admin]
    /\ pol.called_dispatch =>
         /\ SentIds(pol.dispatched.sent_to) = <<admin>>
         /\ pol.dispatched.assigned_immediately_to = admin

\* a category of the 'both' class: `notify` is notified, nobody is assigned
BothRouted(notify) ==
    /\ pol.called_assign =>
         pol.assigned = [notify |-> notify, assignee |-> None]
    /\ pol.called_dispatch =>
         /\ SentIds(pol.dispatched.sent_to) = notify
         /\ pol.dispatched.assigned_immediately_to = None

C6_NotModifiedKeepsAnchor ==
    \A p \in Renders :
      rend[p].not_modified => ~rend[p].delete_tried /\ ~rend[p].sent

\* the screen messages alive in a chat, those whose delete the gateway refused
\* left aside
LiveAnchors(chat) ==
    {m \in screen_msgs : m.chat = chat /\ <<chat, m.id>> \notin refused}

\* the ids the two anchor maps record for a chat
Recorded(chat) == {ADMIN_ANCHOR[chat], BOSS_ANCHOR[chat]} \ {None}

\* C7 - Anchor single-liveness (sequential): after every render of a sequence, a
\* chat holds at most one live anchor message, refused deletes left aside.
C7_SingleLiveAnchor ==
    Quiescent => \A chat \in staff_ids : Cardinality(LiveAnchors(chat)) <= 1

\* C8 - Anchor invariant under interleaving: once the interleaved renders are
\* over, no chat holds two live anchor messages of which one is recorded in an
\* anchor map and the other is not.
C8_NoUnrecordedAnchor ==
    Quiescent =>
      \A chat \in staff_ids :
        ~ \E m1, m2 \in LiveAnchors(chat) :
            /\ m1.id # m2.id
            /\ m1.id \in Recorded(chat)
            /\ m2.id \notin Recorded(chat)

\* C11 - Rating once, after closure: a step writes a ticket's final complexity
\* only while the ticket is CLOSED, and never once the rating has a value.
C11_RateOnceAfterClosure ==
    [][ \A t \in 1..Len(tasks) :
          tasks'[t].final_complexity # tasks[t].final_complexity =>
            /\ tasks[t].status = Status_CLOSED
            /\ tasks[t].final_complexity = None ]_vars

\* C12 - Exclusive routing assigns immediately: the ticket _finalize_ticket
\* stores for a category of an exclusive class has the assigned status and the
\* category's admin as assignee.
C12_ExclusiveAssigned ==
    [][ \A p \in Procs, category \in ONLY_ARTUR \cup ONLY_ANDREY :
          FinalizeCreate(p, category) =>
            /\ tasks'[Len(tasks')].status = STATUS_ASSIGNED_VALUE
            /\ tasks'[Len(tasks')].assignee =
                 (IF category \in ONLY_ARTUR THEN ARTUR_ID ELSE ANDREY_K_ID) ]_vars

\* C13 - Order of claim side effects: when a winning cb_accept reaches the refresh
\* of the claimant's list (step 3), the records of every staff member notified of
\* the ticket have been purged (step 1) and the submitting user has been sent a
\* confirmation (step 2).
C13_SideEffectsInOrder ==
    \A p \in Procs :
      Answered(p) /\ procs[p].outcome = "won" =>
        /\ \A s \in procs[p].notified :
             get_admin_msgs(admin_msgs, procs[p].task, s) = <<>>
        /\ procs[p].confirmed

\* C14 - Gateway failures never undo a claim: every step a winning cb_accept
\* takes after its commit (removal of the cards, delete of the clicked message,
\* refresh of the list and answer), whatever the gateway answers, leaves the
\* status and the assignee of every ticket as they were.
C14_ClaimSurvivesGateway ==
    [][ \A p \in Procs :
          Accepting(p) /\ procs[p].outcome = "won" /\ procs'[p] # procs[p] =>
            \A t \in 1..Len(tasks) :
              /\ tasks'[t].status = tasks[t].status
              /\ tasks'[t].assignee = tasks[t].assignee ]_vars

\* a winning cb_accept before its last step, the gateway having refused every
\* delete of the clicked card, and the ticket stored as claimed
C14_Witness ==
    \E p \in Procs :
      /\ Answered(p) /\ procs[p].outcome = "won"
      /\ procs[p].clicked # None /\ procs[p].ledger_ops
      /\ \E c \in cards : c.chat = procs[p].me /\ c.id = procs[p].clicked
      /\ tasks[procs[p].task].status = STATUS_ASSIGNED_VALUE
      /\ tasks[procs[p].task].assignee = procs[p].me

\* a cb_accept whose UPDATE matched no row
Losing(p) == Accepting(p) /\ procs[p].outcome # "won"

\* no step of a losing cb_accept, its UPDATE included, changes a ticket
LosingKeepsTicket(p) ==
    ( /\ procs'[p] # procs[p]
      /\ \/ Losing(p)
         \/ procs[p].pc = "idle" /\ procs'[p].kind = "accept" /\ procs'[p].outcome # "won" )
    => tasks' = tasks

\* the notice of a losing cb_accept: the display name of the assignee the re-read
\* finds, as a notice (no alert); no name when there is no row or no assignee
LosingNotice(p) ==
    Losing(p) /\ procs[p].pc = "reread" /\ procs'[p].pc = "show" =>
      LET t == procs[p].task
      IN  IF TaskExists(t) /\ tasks[t].assignee # None
          THEN /\ procs'[p].outcome = "taken"
               /\ procs'[p].told = _admin_name(tasks[t].assignee)
          ELSE /\ procs'[p].outcome = "failed"
               /\ procs'[p].told = ""

\* the tickets that are NEW and unassigned
NewUnassigned == {t \in 1..Len(tasks) : tasks[t].status = Status_NEW /\ tasks[t].assignee = None}

\* C15 as stated - Losing claim outcome: a losing claim changes no ticket, reports
\* the assignee's name if there is one, and when its handler completes, the task
\* list it has rendered offers the accept button only for tickets that are still
\* NEW and unassigned.
C15_NoStaleOffer ==
    [][ \A p \in Procs :
          /\ LosingKeepsTicket(p)
          /\ LosingNotice(p)
          /\ Losing(p) /\ procs[p].pc = "render" /\ procs'[p].pc = "idle" =>
               procs[p].offer \subseteq NewUnassigned ]_vars

\* C15 amended - Losing claim outcome: a losing claim changes no ticket, reports
\* the assignee's name if there is one, and the task list its handler renders
\* offers the accept button exactly for the tickets that were NEW and unassigned
\* when the handler read the list, never for the ticket of the lost claim.
C15_OfferAsRead ==
    [][ \A p \in Procs :
          /\ LosingKeepsTicket(p)
          /\ LosingNotice(p)
          /\ Losing(p) /\ procs[p].pc = "show" /\ procs'[p].pc = "render" =>
               /\ procs'[p].offer = NewUnassigned
               /\ procs[p].task \notin procs'[p].offer
          /\ Losing(p) /\ procs[p].pc = "render" /\ procs'[p].pc = "idle" =>
               procs[p].task \notin procs[p].offer ]_vars

\* a losing cb_accept that has named the assignee and is rendering a list with
\* the accept button on another ticket, which somebody has claimed since
C15_Witness ==
    \E p \in Procs :
      /\ Losing(p) /\ procs[p].pc = "render"
      /\ procs[p].outcome = "taken"
      /\ procs[p].told = _admin_name(tasks[procs[p].task].assignee)
      /\ procs[p].task \notin procs[p].offer
      /\ \E t \in procs[p].offer : tasks[t].assignee # None

\* C16 - Delivery refusal is per recipient: whatever the gateway answers for one
\* recipient of a new ticket's cards, the delivery goes on with the recipients
\* that are left.
C16_DeliveryPerRecipient ==
    [][ \A p \in Procs :
          ( /\ procs[p].pc \in {"notify", "voice"}
            /\ procs[p].kind \in {"finalize", "dispatch"}
            /\ procs'[p] # procs[p]
            /\ Tail(procs[p].notify) # <<>> )
          => /\ procs'[p].pc \in {"notify", "voice"}
             /\ procs'[p].task = procs[p].task
             /\ procs'[p].notify \in {procs[p].notify, Tail(procs[p].notify)} ]_vars

\* C18 - Interleaving does not lose ledger updates: the forget_admin that ends
\* the retraction of a (ticket, staff) pair discards only records whose delete
\* the retraction has attempted, those of its snapshot.
C18_ForgetOnlyRetracted ==
    [][ \A p \in Procs :
          procs[p].pc = "rm" /\ procs'[p] # procs[p] =>
            Range(get_admin_msgs(admin_msgs, procs[p].task, Head(procs[p].targets)))
                \subseteq Range(procs[p].infos) ]_vars

\* C17 - Store failure propagates: a cb_accept whose UPDATE the store failed to
\* execute is over with the error raised to the dispatcher: it has reported
\* neither a win nor a loss, has touched no message and no ledger record, and the
\* step of the failure leaves the tickets, the ledger, the cards and the anchor
\* maps as they were.
C17_StoreFailurePropagates ==
    [][ \A p \in Procs :
          procs'[p].store = "down" /\ procs'[p] # procs[p] =>
            /\ procs'[p].pc = "raised"
            /\ procs'[p].outcome = ""
            /\ ~procs'[p].msg_ops /\ ~procs'[p].ledger_ops
            /\ UNCHANGED <<tasks, admin_msgs, cards, ADMIN_ANCHOR, BOSS_ANCHOR>> ]_vars

\* the store failed on the claim of a NEW, unassigned ticket by a staff member
\* who pressed the accept button of a recorded card: the card and its record are
\* still there
C17_Witness ==
    \E p \in Procs :
      /\ procs[p].pc = "raised" /\ procs[p].store = "down"
      /\ procs[p].clicked # None
      /\ ClaimMatches(procs[p].task)
      /\ <<procs[p].me, procs[p].clicked>>
            \in Range(get_admin_msgs(admin_msgs, procs[p].task, procs[p].me))
      /\ \E c \in cards : c.chat = procs[p].me /\ c.id = procs[p].clicked

\* the locations remembered for a pair since its last forget, in call order
RECURSIVE Remembered(_, _, _)
Remembered(log, t, s) ==
    IF log = <<>> THEN <<>>
    ELSE LET c == log[Len(log)]
             before == Remembered(SubSeq(log, 1, Len(log) - 1), t, s)
         IN  IF c.task # t \/ c.staff # s THEN before
             ELSE IF c.op = "forget" THEN <<>>
             ELSE Append(before, <<c.chat, c.msg>>)

\* C19 - remember accumulates: after any sequence of calls, get_admin_msgs of a
\* pair is the sequence of the locations remembered for that pair since its last
\* forget, in call order and with duplicates; so a remember for one pair changes
\* no other pair's list.
C19_RememberAccumulates ==
    \A t \in TaskIds, s \in staff_ids :
      get_admin_msgs(admin_msgs, t, s) = Remembered(calls, t, s)

\* the same location remembered twice for a pair after a forget of that pair
C19_Witness ==
    \E t \in TaskIds, s \in staff_ids :
      /\ Len(calls) = 3 /\ calls[1].op = "forget"
      /\ calls[1].task = t /\ calls[1].staff = s
      /\ Len(get_admin_msgs(admin_msgs, t, s)) = 2
      /\ get_admin_msgs(admin_msgs, t, s)[1] = get_admin_msgs(admin_msgs, t, s)[2]

\* the last call made on the ledger
LastCall == calls'[Len(calls')]

\* C20 - forget is local: forget_admin(ticket, staff) leaves the pair's list
\* empty and every other pair's list as it was, other staff of the same ticket
\* included; for a pair without records it changes nothing.
C20_ForgetLocal ==
    [][ calls' # calls /\ LastCall.op = "forget" =>
          /\ get_admin_msgs(admin_msgs', LastCall.task, LastCall.staff) = <<>>
          /\ \A t \in TaskIds, s \in staff_ids :
               t # LastCall.task \/ s # LastCall.staff =>
                 get_admin_msgs(admin_msgs', t, s) = get_admin_msgs(admin_msgs, t, s)
          /\ get_admin_msgs(admin_msgs, LastCall.task, LastCall.staff) = <<>> =>
               admin_msgs' = admin_msgs ]_vars

\* a forget of one staff member's records of a ticket for which another staff
\* member has records too, which are kept
C20_Witness ==
    /\ Len(calls) = 3 /\ calls[3].op = "forget"
    /\ calls[1].op = "remember" /\ calls[1].task = calls[3].task
    /\ calls[1].staff = calls[3].staff
    /\ calls[2].op = "remember" /\ calls[2].task = calls[3].task
    /\ calls[2].staff # calls[3].staff
    /\ get_admin_msgs(admin_msgs, calls[3].task, calls[3].staff) = <<>>
    /\ get_admin_msgs(admin_msgs, calls[2].task, calls[2].staff) # <<>>

\* C21 - forget_all clears one ticket: forget_admin_all(ticket) leaves
\* get_admin_msgs(ticket, s) empty for every staff member s, and the records of
\* every other ticket and every ticket's user-message slot as they were.
C21_ForgetAllOneTicket ==
    [][ calls' # calls /\ LastCall.op = "forget_all" =>
          /\ \A s \in staff_ids : get_admin_msgs(admin_msgs', LastCall.task, s) = <<>>
          /\ \A t \in TaskIds \ {LastCall.task}, s \in staff_ids :
                get_admin_msgs(admin_msgs', t, s) = get_admin_msgs(admin_msgs, t, s)
          /\ user_msg' = user_msg ]_vars

\* a forget_all of a ticket for which a staff member has records, while another
\* ticket has records too, which are kept
C21_Witness ==
    /\ Len(calls) = 3 /\ calls[3].op = "forget_all"
    /\ calls[1].op = "remember" /\ calls[1].task = calls[3].task
    /\ calls[2].op = "remember" /\ calls[2].task # calls[3].task
    /\ \A s \in staff_ids : get_admin_msgs(admin_msgs, calls[3].task, s) = <<>>
    /\ get_admin_msgs(admin_msgs, calls[2].task, calls[2].staff) # <<>>

\* a hide in flight
Hiding(p) == procs[p].kind = "hide"

\* C22 - Hiding is per staff member: admin_hide_task_card(ticket, A) takes every
\* message recorded for (ticket, A) when it is called for its deletes, no other
\* message; it ends with get_admin_msgs(ticket, A) empty; and no step of it
\* changes the records of another staff member or of another ticket, or the
\* status or the assignee of a ticket.
C22_HidePerStaff ==
    [][ \A p \in Procs, a \in staff_ids, t \in TaskIds :
          /\ admin_hide_task_card(p, a, t) =>
                /\ procs'[p].infos = get_admin_msgs(admin_msgs, t, a)
                /\ admin_msgs' = admin_msgs /\ tasks' = tasks /\ cards' = cards
          /\ Hiding(p) /\ procs[p].me = a /\ procs[p].task = t /\ procs'[p] # procs[p] =>
                /\ procs[p].targets = <<a>>
                /\ procs'[p] = IdleProc
                /\ get_admin_msgs(admin_msgs', t, a) = <<>>
                /\ \A u \in TaskIds, s \in staff_ids :
                      u # t \/ s # a =>
                        get_admin_msgs(admin_msgs', u, s) = get_admin_msgs(admin_msgs, u, s)
                /\ tasks' = tasks
                /\ \A c \in cards \ cards' : CardKey(c) \in Range(procs[p].infos) ]_vars

\* Artur's card of a ticket has been hidden, deleted and forgotten, while
\* Andrey's card of the same ticket is alive and recorded
C22_Witness ==
    /\ \A p \in Procs : procs[p] = IdleProc
    /\ Len(tasks) = 1
    /\ get_admin_msgs(admin_msgs, 1, ARTUR_ID) = <<>>
    /\ get_admin_msgs(admin_msgs, 1, ANDREY_K_ID) = <<<<ANDREY_K_ID, 2>>>>
    /\ cards = {[chat |-> ANDREY_K_ID, id |-> 2, task |-> 1, kb |-> "accept"]}
    /\ tasks[1].status = Status_NEW /\ tasks[1].assignee = None

\* the gateway has rejected the edit a render was awaiting: the render has
\* moved and the screen messages are as they were
EditRejected(p) ==
    /\ rend[p].pc \in {"edit", "markup"}
    /\ rend'[p] # rend[p]
    /\ screen_msgs' = screen_msgs

\* the gateway has accepted the send a render was awaiting
SendAccepted(p) ==
    /\ rend[p].pc = "send"
    /\ rend'[p] # rend[p]
    /\ next_screen' = next_screen + 1

\* the anchor the caller of a render has stored for the render's chat
StoredAnchor(p) ==
    IF rend[p].kind = "admin" THEN ADMIN_ANCHOR'[rend[p].chat] ELSE BOSS_ANCHOR'[rend[p].chat]

\* C23 - Anchor fallback: a render without a previous anchor goes straight to the
\* send; a render whose edit is rejected for a reason other than "not modified"
\* goes on to the delete of the previous anchor and the send of a new message;
\* the new message's id differs from the previous anchor's and is what the render
\* returns, after a delete attempt whose outcome does not matter.
C23_AnchorFallback ==
    [][ \A p \in Renders :
          /\ rend[p].pc = "idle" /\ rend'[p].pc # "idle" =>
                (rend'[p].anchor_id = None <=> rend'[p].pc = "send")
          /\ EditRejected(p) /\ ~rend'[p].not_modified =>
                rend'[p].pc \in {"delete", "send"}
          /\ SendAccepted(p) =>
                /\ [chat |-> rend[p].chat, id |-> next_screen,
                     text |-> rend[p].text, kb |-> rend[p].kb] \in screen_msgs'
                /\ next_screen # rend[p].anchor_id
                /\ IF rend'[p].pc = "idle"
                   THEN /\ StoredAnchor(p) = next_screen
                        /\ rend[p].anchor_id # None => rend[p].delete_tried
                   ELSE /\ rend'[p].pc = "delete"
                        /\ rend'[p].result = next_screen
          /\ rend[p].pc = "delete" /\ rend'[p].pc = "idle" =>
                StoredAnchor(p) = rend[p].result ]_vars

\* the steps a safe_bulk_delete in flight has still to take, at most
SafeMeasure(s) ==
    IF s.pc = "idle" THEN 0
    ELSE Len(s.ids) * 2 * s.max_attempts + 2 * (s.max_attempts - s.attempt)
         + (IF s.pc = "call" THEN 1 ELSE 2)

\* C24 - Bounded retry: call_with_retry terminates whatever the gateway answers
\* (every step of it lowers a natural-number measure); it calls coro_factory at
\* most max_attempts times; it returns the result of the first call that
\* succeeds; and it returns None for exhausted attempts exactly after
\* max_attempts failed calls, with no further call.
C24_BoundedRetry ==
    /\ [](/\ safe.pc # "idle" => /\ safe.invoked < safe.max_attempts
                                  /\ safe.attempt = safe.invoked + 1
                                  /\ SafeMeasure(safe) > 0
          /\ \A i \in DOMAIN safe.done :
                /\ safe.done[i].invoked >= 1
                /\ safe.done[i].invoked <= safe.max_attempts
                /\ safe.done[i].how = "exhausted" =>
                      safe.done[i].invoked = safe.max_attempts)
    /\ [][ /\ safe.pc # "idle" => SafeMeasure(safe') < SafeMeasure(safe)
           /\ call_with_retry("ok") =>
                 /\ Len(safe'.done) = Len(safe.done) + 1
                 /\ safe'.done[Len(safe'.done)] =
                       [mid |-> Head(safe.ids), how |-> "ok", invoked |-> safe.invoked + 1]
         ]_vars

\* with the default max_attempts, one delete given up after five failed calls
\* and one that succeeded at its third call
C24_Witness ==
    /\ safe.pc = "idle" /\ safe.max_attempts = 5 /\ Len(safe.done) = 2
    /\ safe.done[1].how = "exhausted" /\ safe.done[1].invoked = 5
    /\ safe.done[2].how = "ok" /\ safe.done[2].invoked = 3

\* the ids of the calls that have returned, in order
RECURSIVE DoneIds(_)
DoneIds(done) ==
    IF done = <<>> THEN <<>>
    ELSE Append(DoneIds(SubSeq(done, 1, Len(done) - 1)), done[Len(done)].mid)

\* C25 - Stale references and refusals are swallowed without retry: a call that
\* raises a forbidden error or a noisy bad request makes call_with_retry return
\* None at that attempt, with no sleep and no further call; whatever the call
\* raises call_with_retry returns, so safe_bulk_delete goes through its whole
\* list: the ids done and the ids left are the sorted list, and when it is over
\* every id of the list has had its call.
C25_SwallowedNoRetry ==
    /\ [](/\ DoneIds(safe.done) \o safe.ids = sort_reverse(safe.given)
          /\ safe.pc = "idle" => safe.ids = <<>>
          /\ \A i \in DOMAIN safe.done :
                safe.done[i].how = "swallowed" \/ safe.done[i].how = "ok"
                \/ safe.done[i].how = "exhausted")
    /\ [][ \A o \in {"forbidden", "noisy"} :
             call_with_retry(o) =>
               /\ Len(safe'.done) = Len(safe.done) + 1
               /\ safe'.done[Len(safe'.done)] =
                     [mid |-> Head(safe.ids), how |-> "swallowed",
                      invoked |-> safe.invoked + 1]
               /\ safe'.pc # "sleep" ]_vars

\* a bulk delete of two messages that is over: the delete of the larger id was
\* refused as forbidden at the first call, the delete of the other met "message
\* to delete not found" at its second call
C25_Witness ==
    /\ safe.pc = "idle" /\ safe.given = <<1, 2>> /\ Len(safe.done) = 2
    /\ safe.done[1] = [mid |-> 2, how |-> "swallowed", invoked |-> 1]
    /\ safe.done[2] = [mid |-> 1, how |-> "swallowed", invoked |-> 2]

\* C26 - Unknown categories go to both: a category that is in none of the three
\* configured sets, the empty string included, has the policy class of the
\* categories of the BOTH set, and both entry points route it as they route a
\* category of the BOTH set on the same admin ids and open-ticket counts.
C26_UnknownIsBoth ==
    pol.category \notin ONLY_ARTUR \cup ONLY_ANDREY \cup BOTH =>
      /\ _policy_for(pol.category) = "BOTH"
      /\ \A b \in BOTH :
            /\ _policy_for(b) = _policy_for(pol.category)
            /\ pol.called_assign =>
                  pol.assigned = assign_by_category(pol.artur, pol.andrey, b,
                                                    pol.a_open, pol.k_open)
            /\ pol.called_dispatch =>
                  pol.dispatched = dispatch_new_task(pol.artur, pol.andrey, b,
                                                     pol.a_open, pol.k_open)

\* both entry points called on the empty category with both admins configured
\* and Andrey the less loaded: he alone is notified, nobody is assigned
C26_Witness ==
    /\ pol.category = "" /\ Configured
    /\ pol.called_assign /\ pol.called_dispatch
    /\ pol.a_open > pol.k_open
    /\ pol.assigned = [notify |-> <<ANDREY_K_ID>>, assignee |-> None]
    /\ pol.dispatched.sent_to = <<FALSE, TRUE>>
    /\ pol.dispatched.assigned_immediately_to = None

\* C28 - The two policy entry points agree: on the same category, open-ticket
\* counts and admin ids, not configured ones (0) included, assign_by_category
\* returns the notified ids that dispatch_new_task reports as sent_to and the
\* immediate assignee it reports as assigned_immediately_to.
C28_EntryPointsAgree ==
    pol.called_assign /\ pol.called_dispatch =>
      /\ pol.assigned.notify = SentIds(pol.dispatched.sent_to)
      /\ pol.assigned.assignee = pol.dispatched.assigned_immediately_to

\* C29 - Load balancing for the 'both' class: with both admins configured,
\* assign_by_category on a category of the BOTH set or an unknown one returns
\* both admins when their open-ticket counts are equal, otherwise the one admin
\* with the strictly smaller count alone; the immediate assignee is None either
\* way.
C29_BothLoadBalanced ==
    Configured /\ pol.called_assign /\ pol.category \notin ONLY_ARTUR \cup ONLY_ANDREY =>
      /\ pol.assigned.assignee = None
      /\ pol.a_open = pol.k_open => pol.assigned.notify = <<ARTUR_ID, ANDREY_K_ID>>
      /\ pol.a_open < pol.k_open => pol.assigned.notify = <<ARTUR_ID>>
      /\ pol.a_open > pol.k_open => pol.assigned.notify = <<ANDREY_K_ID>>

\* assign_by_category called on an unknown category with Artur the less loaded,
\* and he alone is returned
C29_Witness ==
    /\ Configured /\ pol.called_assign
    /\ pol.category = "Noutbuk"
    /\ pol.a_open < pol.k_open
    /\ pol.assigned = [notify |-> <<ARTUR_ID>>, assignee |-> None]

\* the ledger `msgs` has a record of the card under (its ticket, its chat)
Tracked(msgs, c) == CardKey(c) \in Range(get_admin_msgs(msgs, c.task, c.chat))

\* C27 as stated - Every card is tracked: no message with an accept button is in
\* a staff chat without a ledger record under (its ticket, the staff member).
C27_AcceptCardsTracked ==
    \A c \in cards : c.kb = "accept" => Tracked(admin_msgs, c)

\* C27 amended - Every card is tracked: a message the submission flow or the boss
\* flow sends to a staff member for a new ticket is recorded under (ticket, staff
\* member) in the step of its send; and a message in a staff chat loses its
\* record only by the forget that ends a retraction of its (ticket, staff
\* member) pair, which leaves the pair without records.
C27_TrackedUntilForgotten ==
    [][ /\ \A c \in cards' :
              (\A d \in cards : CardKey(d) # CardKey(c)) => Tracked(admin_msgs', c)
        /\ \A c \in cards :
              ( /\ \E d \in cards' : CardKey(d) = CardKey(c)
                /\ Tracked(admin_msgs, c) /\ ~Tracked(admin_msgs', c) ) =>
                /\ get_admin_msgs(admin_msgs', c.task, c.chat) = <<>>
                /\ \E p \in Procs :
                      /\ procs[p].pc = "rm" /\ procs'[p] # procs[p]
                      /\ procs[p].task = c.task
                      /\ Head(procs[p].targets) = c.chat ]_vars

\* two cards of a ticket with the accept button, one for each admin: one is
\* recorded, the other has outlived the delete and the forget of a retraction
C27_Witness ==
    \E c, d \in cards :
      /\ c.task = d.task /\ c.chat # d.chat
      /\ c.kb = "accept" /\ d.kb = "accept"
      /\ Tracked(admin_msgs, c) /\ ~Tracked(admin_msgs, d)
      /\ wins[d.task] = <<d.chat>>

\* cb_done for ticket t has completed: the ticket is CLOSED and no cb_done for it
\* is still at its cleanup_admin_cards
DoneOver(t) ==
    /\ TaskExists(t) /\ tasks[t].status = Status_CLOSED
    /\ \A p \in Procs : ~(procs[p].kind = "done" /\ procs[p].task = t)

\* C30 - Closing purges the ledger: once cb_done for a ticket has completed, the
\* ledger holds no record of the ticket for either admin, and each forget of its
\* cleanup discards only records whose delete the cleanup has attempted, whether
\* or not the ticket was ever claimed.
C30_ClosePurgesLedger ==
    /\ [](\A t \in TaskIds :
            DoneOver(t) => \A a \in Admins : get_admin_msgs(admin_msgs, t, a) = <<>>)
    /\ [][ \A p \in Procs :
             procs[p].kind = "done" /\ procs[p].pc = "rm" /\ procs'[p] # procs[p] =>
                Range(get_admin_msgs(admin_msgs, procs[p].task, Head(procs[p].targets)))
                    \subseteq Range(procs[p].infos) ]_vars

\* C31 - One draft, one ticket: every ticket is made from one draft, no draft
\* has made more than one ticket however many 'done' events arrive, and an event
\* that finds no draft (or one without a category) creates no ticket and sends no
\* card up to its return.
C31_OneDraftOneTicket ==
    /\ [](/\ \A d \in DOMAIN made : Cardinality(made[d]) <= 1
          /\ \A t \in 1..Len(tasks) : \E d \in DOMAIN made : t \in made[d]
          /\ \A p \in Procs : procs[p].pc = "popped" => made[procs[p].draft.serial] = {})
    /\ [][ \A p \in Procs :
             (procs'[p].pc = "no_data" \/ procs[p].pc = "no_data") /\ procs'[p] # procs[p] =>
                /\ UNCHANGED <<tasks, cards, admin_msgs, made>>
                /\ procs[p].pc = "no_data" => procs'[p] = IdleProc ]_vars

\* one draft, two 'done' events in flight: the first has made the ticket and is
\* notifying, the second has found no draft
C31_Witness ==
    /\ Len(made) = 1 /\ made[1] = {1} /\ Len(tasks) = 1
    /\ procs[1].kind = "finalize" /\ procs[1].pc = "notify"
    /\ procs[2].kind = "finalize" /\ procs[2].pc = "no_data"

\* C32 - Boss tickets go to the chosen admin: while the card of a boss ticket
\* offers the accept button to the chosen admin, the task list of no other staff
\* member offers the claim of the ticket, and a claim of a boss ticket is won
\* only by the admin the ticket was created for (the one its card is sent to).
C32_BossTicketForChosen ==
    /\ [](\A c \in cards : \A me \in staff_ids \ {c.chat} :
            c.kb = "accept" => c.task \notin _my_tasks_kb(tasks, _render_my_tasks(tasks, me)))
    /\ [][ \A t \in TaskIds : wins'[t] # wins[t] =>
             /\ \A c \in cards : c.task = t => c.chat = wins'[t][Len(wins'[t])]
             /\ \A p \in Procs : procs[p].kind = "boss" /\ procs[p].task = t =>
                   Head(procs[p].notify) = wins'[t][Len(wins'[t])] ]_vars

\* C34 - Only staff can claim: the accept callback of a user outside staff_ids
\* gets as far as the "no rights" answer and no further; its steps change no
\* ticket, no ledger record, no card and no anchor, whatever the state of the
\* ticket, and no ticket is ever assigned to or won by somebody outside the staff.
C34_OnlyStaffClaim ==
    /\ [](/\ \A p \in Procs :
                procs[p].me \notin staff_ids \cup {None} => procs[p].pc = "denied"
          /\ \A t \in 1..Len(tasks) : tasks[t].assignee \in staff_ids \cup {None}
          /\ \A t \in TaskIds : \A i \in DOMAIN wins[t] : wins[t][i] \in staff_ids)
    /\ [][ \A p \in Procs :
             /\ procs'[p] # procs[p]
             /\ \/ procs[p].me \notin staff_ids \cup {None}
                \/ procs'[p].me \notin staff_ids \cup {None}
             => UNCHANGED <<tasks, admin_msgs, cards, wins, user_msg, anchor_vars>> ]_vars

\* the submitting user has sent the accept callback of a ticket that is NEW and
\* unassigned, whose card for an admin is recorded in the ledger
C34_Witness ==
    \E p \in Procs :
        /\ procs[p].pc = "denied" /\ procs[p].me = AUTHOR_ID
        /\ ClaimMatches(procs[p].task)
        /\ \E a \in Admins : get_admin_msgs(admin_msgs, procs[p].task, a) # <<>>

\* C33 - Closure notices are eventually retracted: every notice cb_done has sent
\* to the submitting user is eventually the target of a delete attempt, for any
\* number of cb_done calls on the ticket.
C33_NoticeRetracted ==
    \A m \in 1..MaxNotices :
        (\E x \in notices : x.id = m) ~> (\E x \in notices : x.id = m /\ x.tried)

\* C35 - Rate limit bound: for one user and one kind of message, the events
\* AntiSpamMiddleware has passed to the handler within the window that ends now
\* are at most max_n, however many the user sends; and every event, passed or
\* dropped, is pushed to the deque of its kind, which holds the events of the
\* window.
C35_RateLimit ==
    /\ [](\A k \in Kinds :
            Cardinality({i \in DOMAIN passed[k] : passed[k][i] >= now - Limits[k].window})
                <= Limits[k].max_n)
    /\ [][ \A k \in Kinds :
             (passed'[k] # passed[k] \/ _events'[k] # _events[k]) =>
                /\ _events'[k] = Append(SelectSeq(_events[k],
                                            LAMBDA ts : ts >= now - Limits[k].window), now)
                /\ Len(_events'[k]) > Limits[k].max_n => handled' = "dropped" ]_vars

\* max_n events of a kind have passed within the window and one more was dropped
C35_Witness ==
    \E k \in Kinds :
        /\ handled = "dropped"
        /\ Len(_events[k]) = Limits[k].max_n + 1 /\ _events[k][Len(_events[k])] = now
        /\ Len(passed[k]) = Limits[k].max_n
        /\ \A i \in DOMAIN passed[k] : passed[k][i] >= now - Limits[k].window

\* C36 - Brute-force ban: the failures counted for a user outside the staff are
\* the wrong passphrases since the last correct one or the last ban; a ban begins
\* exactly with the wrong passphrase that is the AUTH_MAX_FAILS-th of them; while
\* the unlock time is in the future no handler runs for an update of the user and
\* nothing of the user changes; a correct passphrase leaves zero failures.
C36_BruteForceBan ==
    /\ [](\A u \in Users :
            /\ _AuthBrute_status(FAILS, u)[1] = streak
            /\ streak < AUTH_MAX_FAILS)
    /\ [][ \A u \in Users :
             /\ (~Banned(FAILS, u, now) /\ Banned(FAILS', u, now'))
                   <=> (handled' = "wrong" /\ _events' # _events
                        /\ streak + 1 = AUTH_MAX_FAILS)
             /\ (Banned(FAILS, u, now) /\ now' = now) =>
                   /\ handled' \in {"dropped", "banned"}
                   /\ UNCHANGED <<FAILS, state_name, authed, streak>>
             /\ (handled' = "right" /\ _events' # _events) =>
                   _AuthBrute_status(FAILS', u) = <<0, 0>> ]_vars

\* the user has failed AUTH_MAX_FAILS times, is banned, and an update sent during
\* the ban has passed the anti-spam middleware and was stopped
C36_Witness ==
    \E u \in Users :
        /\ Banned(FAILS, u, now) /\ handled = "banned"
        /\ state_name[u] = "AuthState" /\ streak = 0

====
